---- MODULE Spec2Model ----
(***************************************************************************)
(* Copy-Paste-Forget: a browser extension that clears the clipboard a      *)
(* configurable number of seconds after a paste.                           *)
(*                                                                         *)
(* The model covers the background service worker (src/background.js: the  *)
(* Coordinator), the content scripts that detect pastes (src/content.js    *)
(* and the two other content-script variants of the repository), the       *)
(* browser's timers, badge and chrome.storage.sync, and the teardown of    *)
(* the service worker by the browser.                                      *)
(*                                                                         *)
(* Time is counted in whole seconds and kept relative: a timer holds the   *)
(* seconds left to its deadline, Tick takes one second off every timer,    *)
(* and a timer whose time has come runs before the clock advances.  A      *)
(* timer handle is the smallest number no live timer or variable holds.    *)
(*                                                                         *)
(* Several specifications share the handlers.  Spec is the countdown with  *)
(* time passing (pastes, the on/off switch, "clear now") in a worker that  *)
(* has loaded an interval the user saved.  SpecUpdate is the countdown     *)
(* with time passing while the user saves new intervals.  SpecCold is the  *)
(* settings across teardowns of the worker, from a fresh install, within   *)
(* one second (no timer expires).  SpecPage is a page's content script     *)
(* with the worker behind it, within one second.  The others follow one    *)
(* part each: the fallback chain of a clear (SpecClear, SpecClearNow,      *)
(* SpecPrimitive, and SpecClearToggled with the on/off switch beside it),  *)
(* the content script's set-up and liveness (SpecDetector), the            *)
(* classification of the paste target (SpecClassify), the wrappers of the  *)
(* clipboard API (SpecWrappers), the context menu (SpecMenu), the router's *)
(* answers (SpecRouter), one countdown at a time beside new intervals and  *)
(* the switch (SpecSettle), the popup (SpecPopup, SpecInterval, SpecSave), *)
(* the countdown under fairness (SpecLive) and the worker that tracks      *)
(* copies (SpecCopyTracking).                                              *)
(***************************************************************************)
EXTENDS Integers, Sequences, FiniteSets, TLC

\* ------------------------------------------------------------------ bounds
MaxInterval == 3     \* the longest delay the user saves, in seconds
MaxCountdowns == 2   \* countdown intervals alive at once
MaxInFlight == 1     \* awaited storage reads, awaited storage writes, running clears,
                     \* messages on their way
MaxTextLen == 1      \* characters of a pasted text

\* ------------------------------------------------------- program constants
DefaultInterval == 10     \* settings.interval of a fresh process
BadgeHoldSeconds == 2     \* 'OFF' and 'OK' are blanked after 2000 ms
CountdownPeriod == 1      \* setInterval(..., 1000)

\* The delays autoSaveInterval admits: interval < 1 and interval > 300 are refused.
MinInterval == 1
MaxDelay == 300

Null == 0
Undef == "undefined"

\* Delays the popup sends (it admits 1..300).
Intervals == 1..MaxInterval

\* The content scripts of the repository.
Scripts == {"content.js", "part_000", "part_002"}

\* What a paste carries: strings over a blank and a letter, up to MaxTextLen long.
Chars == {" ", "a"}
Texts == UNION {[1..n -> Chars] : n \in 0..MaxTextLen}

\* Where a paste lands: the element's tag, its type, its autocomplete attribute
\* as the words and blanks it is made of, the computed -webkit-text-security
\* and the name and id of the field as the words they are made of.
Field(tag, type, autocomplete, security, name) ==
  [tag |-> tag, type |-> type, autocomplete |-> autocomplete, security |-> security,
   name |-> name]

Elements ==
  {Field("input", "text", <<>>, "none", <<>>),
   Field("input", "password", <<>>, "none", <<>>),
   Field("input", "text", <<"current-password">>, "none", <<>>),
   Field("input", "text", <<>>, "disc", <<>>),
   Field("textarea", "", <<>>, "none", <<>>)}

\* More of them: other tags, autocomplete attributes of several tokens or with
\* a token that only starts like a password token, no text-security at all,
\* and fields with "password" in their name.
Fields ==
  {Field(tag, type, autocomplete, security, name) :
     tag \in {"input", "textarea", "div"},
     type \in {"text", "password"},
     autocomplete \in {<<>>, <<"current-password">>, <<"new-password">>, <<"one-time-code">>,
                       <<"section-a", " ", "current-password">>, <<"username">>,
                       <<"current-password", "-old">>},
     security \in {"", "none", "disc"},
     name \in {<<>>, <<"user", "password">>}}

\* How the page comes to paste.
Paths == {"paste-listener", "context-menu-listener", "keydown", "readText", "execCommand"}

VARIABLES
  clearTimer,            \* background.js: handle of the pending clear timer, or Null
  settings,              \* background.js: the cached settings object
  settingsInitialized,   \* background.js
  settingsInitPromise,   \* background.js: TRUE while ensureSettingsLoaded's load is pending
  timeouts,              \* browser: pending setTimeout callbacks that clear the clipboard
  countdownIntervals,    \* browser: live setInterval callbacks of handlePasteEvent
  badge,                 \* browser: the action badge text
  badgeTimers,           \* browser: pending setTimeout callbacks that blank the badge
  loads,                 \* loadSettings calls awaiting chrome.storage.sync.get
  updates,               \* updateSettings calls awaiting chrome.storage.sync.set
  clearing,              \* clearClipboard calls that are past their synchronous head
  storage,               \* chrome.storage.sync
  outbox,                \* runtime messages the content script sent, not yet handled
  script,                \* which content script the page runs
  reply,                 \* sender: the response to the one message followed to its answer
  call,                  \* page: its last call of a wrapped clipboard operation
  extensionContextValid, \* content script: liveness flag
  runtimeId,             \* page: whether chrome.runtime.id is still there
  transport,             \* page: what the next chrome.runtime.sendMessage of the script meets
  runs,                  \* page: how many times the content script was run in it
  clipboardSecurityInjected, \* page: window.clipboardSecurityInjected
  listenersSetup,        \* content script: listenersSetup
  listeners,             \* page: how many sets of listeners, wrappers and timers are installed
  readyState,            \* page: document.readyState
  domListeners,          \* page: DOMContentLoaded listeners that call setupListeners
  contextMenu,           \* page: handleContextMenu's timers and one-shot listeners
  tabs,                  \* browser: the open tabs, the active one first when there is one
  offscreenApi,          \* browser: whether chrome.offscreen.createDocument exists
  chain,                 \* a clearClipboard call followed step by step through its fallbacks
  clipboard,             \* system: what the clipboard holds
  clipboardApi,          \* pages: what the clear primitive meets where it runs
  auxiliary,             \* browser: the tabs and windows opened on offscreen.html, still open
  popup                  \* popup.js: the request it awaits, its 5 s timer and what it shows

vars == <<clearTimer, settings, settingsInitialized, settingsInitPromise, timeouts,
          countdownIntervals, badge, badgeTimers, loads, updates, clearing, storage,
          outbox, script, reply, call, extensionContextValid, runtimeId, transport, runs,
          clipboardSecurityInjected, listenersSetup, listeners, readyState, domListeners,
          contextMenu, tabs, offscreenApi, chain, clipboard, clipboardApi, auxiliary, popup>>

coordinatorVars == <<clearTimer, settings, settingsInitialized, settingsInitPromise>>
pageVars == <<transport, runs, clipboardSecurityInjected, listenersSetup, listeners,
              readyState, domListeners, contextMenu>>
detectorVars == <<outbox, script, reply, call, extensionContextValid, runtimeId, pageVars>>
clearerVars == <<tabs, offscreenApi, chain, clipboard, clipboardApi, auxiliary>>

\* ------------------------------------------------------------- the settings
DefaultSettings ==
  [interval |-> DefaultInterval, enabled |-> TRUE, clearOnlyOnPasswordPaste |-> FALSE]

\* A key that was never written reads as undefined; for the interval that is
\* written 0 here, which `||` treats alike.
EmptyStorage ==
  [clipboardInterval |-> 0, extensionEnabled |-> Undef, clearOnlyOnPasswordPaste |-> Undef]

\* result.clipboardInterval || 10 ; result.extensionEnabled !== false ; Boolean(...)
SettingsFromStorage(result) ==
  [interval |-> IF result.clipboardInterval = 0 THEN DefaultInterval
                ELSE result.clipboardInterval,
   enabled |-> (result.extensionEnabled # "false"),
   clearOnlyOnPasswordPaste |-> (result.clearOnlyOnPasswordPaste = "true")]

BoolText(b) == IF b THEN "true" ELSE "false"

\* ------------------------------------------------------------------ timers
\* A clearTimeout that drops nothing: the fault C2 has to catch.
clearTimeoutNoOp(ts, handle) == ts

\* clearTimeout(handle): the pending callback with that handle is dropped.
clearTimeout(ts, handle) == {t \in ts : t.h # handle}

\* The timers whose time has come.
Due(ts) == {t \in ts : t.left = 0}

\* The handle setTimeout returns: one that nothing alive holds.
UsedHandles ==
  {clearTimer} \cup {t.h : t \in timeouts} \cup {c.id : c \in countdownIntervals}

FreshHandle == CHOOSE h \in 1..(Cardinality(UsedHandles) + 1) : h \notin UsedHandles

\* chrome.action.setBadgeText({ text: timeLeft.toString() })
NumberText(n) == ToString(n)

\* ---------------------------------------------------------- handlePasteEvent
\* A handlePasteEvent that stacks the new clear timer on the old one: the fault
\* C1 has to catch.
TimeoutsAfterPasteStacking(h) ==
  timeouts \cup {[h |-> h, left |-> settings.interval, cd |-> h]}

\* if (clearTimer) clearTimeout(clearTimer); ... clearTimer = setTimeout(...,
\* settings.interval * 1000): the clear timers after handlePasteEvent.
TimeoutsAfterPaste(h) ==
  clearTimeout(timeouts, clearTimer)
    \cup {[h |-> h, left |-> settings.interval, cd |-> h]}

\* const countdownInterval = setInterval(..., 1000): the previous countdown's
\* interval is a local of the previous call and is not touched.
IntervalsAfterPaste(h) ==
  countdownIntervals
    \cup {[id |-> h, timeLeft |-> settings.interval, left |-> CountdownPeriod]}

handlePasteEvent ==
  LET h == FreshHandle IN
  /\ timeouts' = TimeoutsAfterPaste(h)
  /\ countdownIntervals' = IntervalsAfterPaste(h)
  /\ badge' = NumberText(settings.interval)
  /\ clearTimer' = h

\* ------------------------------------------------------------------ popup.js
\* Every request of the popup races setTimeout(() => reject(...), 5000).
PopupTimeoutSeconds == 5

NoRequest == [type |-> "none", arg |-> Undef]
Request(type, arg) == [type |-> type, arg |-> arg]

\* The popup that has loaded the settings s and awaits nothing.
PopupShowing(s) ==
  [request |-> NoRequest, phase |-> "idle", left |-> 0, outcome |-> "none",
   success |-> Undef, enableToggle |-> s.enabled,
   passwordOnlyToggle |-> s.clearOnlyOnPasswordPaste, intervalInput |-> s.interval,
   clearNowDisabled |-> ~s.enabled, status |-> ""]

\* updateUI(enabled), as far as the button goes.
updateUI(p, enabled) == [p EXCEPT !.clearNowDisabled = ~enabled]

\* loadCurrentSettings after its await: the response fills the controls; a
\* rejection (transport error, timeout) shows the defaults and an error status.
AfterGetSettings(p, outcome, s) ==
  IF outcome = "response"
    THEN updateUI([p EXCEPT !.intervalInput = s.interval, !.enableToggle = s.enabled,
                            !.passwordOnlyToggle = s.clearOnlyOnPasswordPaste],
                  s.enabled)
    ELSE updateUI([p EXCEPT !.enableToggle = TRUE, !.intervalInput = DefaultInterval,
                            !.status = "error"],
                  TRUE)

\* A toggleExtension that leaves the switch as the user put it whatever comes
\* back: the fault C20 has to catch.
AfterToggleKept(p, outcome, success) ==
  [p EXCEPT !.status = IF outcome = "response" /\ success = "true"
                         THEN "success" ELSE "error"]

\* toggleExtension after its await: anything but a response with success puts
\* the switch back.
AfterToggle(p, outcome, success) ==
  LET enabled == p.request.arg = "true" IN
  IF outcome = "response" /\ success = "true"
    THEN [p EXCEPT !.status = "success"]
    ELSE updateUI([p EXCEPT !.enableToggle = ~enabled, !.status = "error"], ~enabled)

\* autoSaveInterval after its await.
AfterUpdateSettings(p, outcome, success) ==
  [p EXCEPT !.status = IF outcome = "response" /\ success = "true"
                         THEN "success" ELSE "error"]

\* togglePasswordOnly after its await: the checkbox is put back in the catch only.
AfterPasswordOnly(p, outcome, success) ==
  LET value == p.request.arg = "true" IN
  IF outcome = "response"
    THEN [p EXCEPT !.status = IF success = "true" THEN "success" ELSE "error"]
    ELSE [p EXCEPT !.status = "error", !.passwordOnlyToggle = ~value]

\* clearClipboardNow after its await, with its finally.
AfterClearNow(p, outcome, success) ==
  [p EXCEPT !.status = IF outcome = "response" /\ success = "true"
                         THEN "success" ELSE "error",
            !.clearNowDisabled = FALSE]

\* The popup's request settles: as a response (with its success field, and the
\* settings s for GET_SETTINGS), as a transport error or as the timeout.
PopupSettled(outcome, success, s) ==
  LET type == popup.request.type
      p == IF type = "GET_SETTINGS" THEN AfterGetSettings(popup, outcome, s)
           ELSE IF type = "TOGGLE_EXTENSION" THEN AfterToggle(popup, outcome, success)
           ELSE IF type = "UPDATE_SETTINGS" THEN AfterUpdateSettings(popup, outcome, success)
           ELSE IF type = "UPDATE_PASSWORD_ONLY" THEN AfterPasswordOnly(popup, outcome, success)
           ELSE AfterClearNow(popup, outcome, success)
  IN [p EXCEPT !.request = NoRequest, !.phase = "idle", !.left = 0,
               !.outcome = outcome, !.success = success]

\* The popup's message `request` is the one the router is handling.
PopupSent(request) == popup.phase = "sent" /\ popup.request = request

\* The router has returned true for the popup's request and holds sendResponse.
PopupHeld(type) == popup.phase = "held" /\ popup.request.type = type

\* sendResponse(...) inside the listener.
sendResponse(request, success, s) ==
  popup' = IF PopupSent(request) THEN PopupSettled("response", success, s) ELSE popup

\* return true: the response comes later.
keepChannelOpen(request) ==
  popup' = IF PopupSent(request) THEN [popup EXCEPT !.phase = "held"] ELSE popup

\* sendResponse(...) in the continuation of a handler that returned true.
sendResponseLater(type, success, s) ==
  popup' = IF PopupHeld(type) THEN PopupSettled("response", success, s) ELSE popup

\* ------------------------------------------------------------------- Clearer
\* The pings of the readiness handshake: pingOffscreen(5, 200).
PingRetries == 5
\* setTimeout(() => reject(new Error('Offscreen timeout')), 3000)
OffscreenTimeoutSeconds == 3

\* No clearClipboard call is followed.
IdleChain ==
  [pc |-> "idle", tried |-> <<>>, i |-> 0, pings |-> 0, sends |-> 0, timed |-> FALSE,
   left |-> 0, cleared |-> FALSE]

\* The popup's 5 s timer, and the 3 s timer around OFFSCREEN_CLEAR_CLIPBOARD, have
\* run out.
PopupTimerDue == popup.phase # "idle" /\ popup.left = 0
OffscreenTimerDue == chain.timed /\ chain.left = 0

\* ------------------------------------------------------------ clearClipboard
\* The synchronous head of clearClipboard: if (clearTimer) { clearTimeout(
\* clearTimer); clearTimer = null; }.  Called from a timer callback, the timer
\* `fired` is no longer pending.  The fallback chain then runs across awaits.
\* A clearClipboard without its clearTimeout: the fault C10 has to catch.
TimeoutsAfterClearKept(fired) == timeouts \ fired

TimeoutsAfterClear(fired) == clearTimeout(timeouts \ fired, clearTimer)

\* A clearClipboard that leaves clearTimer set: the fault C11 has to catch.
clearClipboardKeepingHandle(fired) ==
  /\ timeouts' = TimeoutsAfterClear(fired)
  /\ clearTimer' = clearTimer
  /\ clearing' = clearing + 1

clearClipboard(fired) ==
  /\ timeouts' = TimeoutsAfterClear(fired)
  /\ clearTimer' = Null
  /\ clearing' = clearing + 1

\* showClearedBadge
showClearedBadge ==
  /\ badge' = "OK"
  /\ badgeTimers' = badgeTimers \cup {BadgeHoldSeconds}

\* A clearClipboard call returns: some context ran the clear (showClearedBadge;
\* return) or none did (console.error).  Nothing is returned and nothing is
\* thrown, so the promise resolves either way and the router's .then answers a
\* CLEAR_CLIPBOARD_NOW with { success: true }.
ClearClipboardSettles(cleared) ==
  /\ clearing > 0
  /\ clearing' = clearing - 1
  /\ IF cleared THEN showClearedBadge ELSE UNCHANGED <<badge, badgeTimers>>
  /\ sendResponseLater("CLEAR_CLIPBOARD_NOW", "true", settings)
  /\ UNCHANGED <<coordinatorVars, timeouts, countdownIntervals, loads, updates, storage,
                 detectorVars, tabs, offscreenApi, clipboard, clipboardApi, auxiliary>>

\* The fallback chain of a clearClipboard call comes to its end, its steps not
\* followed one by one.
ClearClipboardDone ==
  /\ chain.pc = "idle"
  /\ \E cleared \in BOOLEAN : ClearClipboardSettles(cleared)
  /\ UNCHANGED chain

\* ------------------------------------------------- the fallback chain, by step
MaxTabs == 2   \* open tabs

\* What a tab shows: an ordinary page, a chrome:// page, a chrome-extension://
\* page, or an about: page.
TabKinds == {"web", "chrome", "extension", "about"}
TabLists == UNION {[1..n -> TabKinds] : n \in 0..MaxTabs}

\* !tabs[0].url.startsWith('chrome://'), the test of the first step.
NotChromeUrl(kind) == kind # "chrome"

\* The filter of the second step.
Suitable(kind) == kind \notin {"chrome", "extension", "about"}

\* The test inside the loop of the third step.
Candidate(kind) == kind \notin {"chrome", "extension"}

\* chrome.scripting.executeScript can run in the tab, and a content script can
\* be listening in it: ordinary pages only.
Scriptable(kind) == kind = "web"

\* The step k is attempted.
Attempt(c, k) ==
  [c EXCEPT !.tried = IF c.tried # <<>> /\ c.tried[Len(c.tried)] = k THEN @ ELSE Append(@, k)]

\* showClearedBadge(); return;
Succeeded(c) == [c EXCEPT !.pc = "done", !.cleared = TRUE, !.timed = FALSE, !.left = 0]

\* A first step that goes on to the next after its success: the fault C12 has
\* to catch.
AfterActiveTabFallingThrough(c, ok) == [c EXCEPT !.pc = "other", !.cleared = ok]

\* After executeScript in the active tab: return on success, on to "any suitable
\* tab" when it threw.
AfterActiveTab(c, ok) == IF ok THEN Succeeded(c) ELSE [c EXCEPT !.pc = "other"]

\* After executeScript in suitableTabs[0].
AfterOtherTab(c, ok) == IF ok THEN Succeeded(c) ELSE [c EXCEPT !.pc = "scripts", !.i = 1]

\* After chrome.tabs.sendMessage(tab.id, CLEAR_CLIPBOARD_REQUEST) settles: return
\* on response.success, else the next tab of the loop.
AfterContentScript(c, ok) ==
  IF ok THEN Succeeded(c) ELSE [c EXCEPT !.pc = "scripts", !.i = @ + 1]

\* A clearClipboardOffscreen that sends again after every rejected send: the
\* fault C27 has to catch.
AfterOffscreenSendRetrying(c, answer) ==
  IF answer = "success" THEN [c EXCEPT !.pc = "done", !.cleared = TRUE, !.timed = FALSE,
                                       !.left = 0]
  ELSE IF answer = "error" /\ c.sends < 3
    THEN [c EXCEPT !.pc = "send", !.timed = FALSE, !.left = 0]
  ELSE [c EXCEPT !.pc = "ephemeralWindow", !.timed = FALSE, !.left = 0]

\* After a send() of OFFSCREEN_CLEAR_CLIPBOARD settles: success returns true; a
\* rejection (lastError, or the 3 s timeout) of the first send leads to the one
\* retry; anything else to the ephemeral window.
AfterOffscreenSend(c, answer) ==
  IF answer = "success" THEN Succeeded(c)
  ELSE IF answer = "error" /\ c.sends = 1
    THEN [c EXCEPT !.pc = "send", !.timed = FALSE, !.left = 0]
  ELSE [c EXCEPT !.pc = "ephemeralWindow", !.timed = FALSE, !.left = 0]

\* After the ephemeral tab or window: return true once it was opened ("best
\* effort"), false when opening threw.
AfterEphemeral(c, opened) == [c EXCEPT !.pc = "done", !.cleared = opened]

\* ------------------------------------------------------- the clear primitive
\* What the clipboard holds: something the user copied, the blank the
\* synthesized copy puts there, or nothing.
Secret == "secret"
Contents == {Secret, " ", ""}

\* What the primitive meets in a page: navigator.clipboard.writeText('') resolves,
\* rejects (the document is not focused, no permission) or is not there; and
\* document.execCommand('copy') copies or does not.
ClipboardApis == [modern : {"resolves", "rejects", "absent"}, exec : BOOLEAN]
WorkingApi == [modern |-> "resolves", exec |-> TRUE]
NoApi == [modern |-> "absent", exec |-> FALSE]

\* clearWithExecCommand of clearClipboardInTab: a textarea holding one blank is
\* selected and copied; the writeText('') that follows a success is the call
\* that was not there or has just rejected.
clearWithExecCommand(api, content) == IF api.exec THEN " " ELSE content

\* clearClipboardInTab, the function injected into a tab: writeText(''), and,
\* when that rejects or is not there, clearWithExecCommand.
clearClipboardInTab(api, content) ==
  IF api.modern = "resolves" THEN "" ELSE clearWithExecCommand(api, content)

\* clearClipboardInContent of a content script: writeText(''), whose rejection
\* is only logged; without navigator.clipboard a textarea is copied, which holds
\* a blank in part_002 and nothing (an empty selection, nothing is copied) in
\* content.js and part_000.
clearClipboardInContent(s, api, content) ==
  IF api.modern = "resolves" THEN ""
  ELSE IF api.modern = "rejects" THEN content
  ELSE IF s = "part_002" /\ api.exec THEN " "
  ELSE content

\* clearClipboard of the offscreen document, and what its caller reports:
\* writeText(''); else a copy whose event handler empties the data; else the
\* textarea with a blank, which needs the same execCommand('copy').
OffscreenClearClipboard(api, content) ==
  IF api.modern = "resolves" \/ api.exec
    THEN [content |-> "", success |-> TRUE]
    ELSE [content |-> content, success |-> FALSE]

\* A step of the clearClipboard call that is followed, after which the
\* clipboard holds `content` and the auxiliary pages `aux` are open.
ClearerActs(c, content, aux) ==
  /\ clearing > 0
  /\ chain' = c
  /\ clipboard' = content
  /\ auxiliary' = aux
  /\ UNCHANGED <<coordinatorVars, timeouts, countdownIntervals, badge, badgeTimers, loads,
                 updates, clearing, storage, detectorVars, tabs, offscreenApi, clipboardApi,
                 popup>>

\* A step that opens or closes no auxiliary page.
ClearerRuns(c, content) == ClearerActs(c, content, auxiliary)

\* A step of the clearClipboard call that runs no primitive.
ClearerStep(c) == ClearerRuns(c, clipboard)

\* Step 1, after the head of clearClipboard: the active tab of the current
\* window (the first of tabs), unless it is a chrome:// page.
ClearerTriesActiveTab ==
  /\ chain.pc = "idle"
  /\ IF tabs # <<>> /\ NotChromeUrl(tabs[1])
       THEN \E ok \in BOOLEAN :
              /\ ok => Scriptable(tabs[1])
              /\ ClearerRuns(AfterActiveTab(Attempt(chain, 1), ok),
                             IF ok THEN clearClipboardInTab(clipboardApi, clipboard)
                                   ELSE clipboard)
       ELSE ClearerStep([chain EXCEPT !.pc = "other"])

\* Step 2: the first of the suitable tabs.
ClearerTriesOtherTab ==
  /\ chain.pc = "other"
  /\ LET suitableTabs == SelectSeq(tabs, Suitable) IN
     IF suitableTabs # <<>>
       THEN \E ok \in BOOLEAN :
              /\ ok => Scriptable(suitableTabs[1])
              /\ ClearerRuns(AfterOtherTab(Attempt(chain, 2), ok),
                             IF ok THEN clearClipboardInTab(clipboardApi, clipboard)
                                   ELSE clipboard)
       ELSE ClearerStep([chain EXCEPT !.pc = "scripts", !.i = 1])

\* Step 3, the loop over all tabs: CLEAR_CLIPBOARD_REQUEST is sent to the next
\* candidate tab and awaited; no timer runs beside the await.
ClearerAsksContentScript ==
  /\ chain.pc = "scripts"
  /\ IF chain.i > Len(tabs)
       THEN ClearerStep([chain EXCEPT !.pc = "offscreen", !.i = 0])
       ELSE IF Candidate(tabs[chain.i])
         THEN ClearerStep([Attempt(chain, 3) EXCEPT !.pc = "awaitScript"])
         ELSE ClearerStep([chain EXCEPT !.i = @ + 1])

\* The tab's content script calls clearClipboardInContent and answers
\* { success: true }, or the send rejects (no receiver in the tab).
ContentScriptAnswers ==
  /\ chain.pc = "awaitScript"
  /\ \E ok \in BOOLEAN :
       /\ ok => Scriptable(tabs[chain.i])
       /\ ClearerRuns(AfterContentScript(chain, ok),
                      IF ok THEN clearClipboardInContent(script, clipboardApi, clipboard)
                            ELSE clipboard)

\* Step 4, ensureOffscreen: false without chrome.offscreen.createDocument, or
\* when hasDocument / createDocument throws; else the pings start.
ClearerEnsuresOffscreen ==
  /\ chain.pc = "offscreen"
  /\ IF offscreenApi
       THEN \E created \in BOOLEAN :
              ClearerStep([chain EXCEPT !.pc = IF created THEN "ping" ELSE "ephemeralTab"])
       ELSE ClearerStep([chain EXCEPT !.pc = "ephemeralTab"])

\* pingOffscreen: the next OFFSCREEN_PING is sent and awaited, no timer beside
\* it; after the last failed attempt the document counts as not ready.
ClearerPings ==
  /\ chain.pc = "ping"
  /\ IF chain.pings < PingRetries
       THEN ClearerStep([chain EXCEPT !.pc = "awaitPing", !.pings = @ + 1])
       ELSE ClearerStep([chain EXCEPT !.pc = "ephemeralTab"])

\* The callback of an OFFSCREEN_PING runs: with { success: true }, or with
\* lastError or another response; the 200 ms before the next ping pass.
OffscreenPingAnswered ==
  /\ chain.pc = "awaitPing"
  /\ \E ok \in BOOLEAN :
       ClearerStep([chain EXCEPT !.pc = IF ok THEN "send" ELSE "ping"])

\* send(): OFFSCREEN_CLEAR_CLIPBOARD goes out beside a 3 s timer (the second
\* time, 500 ms after the first was rejected).
ClearerSendsOffscreenClear ==
  /\ chain.pc = "send"
  /\ ClearerStep([Attempt(chain, 4) EXCEPT !.pc = "awaitClear", !.sends = @ + 1,
                                          !.timed = TRUE,
                                          !.left = OffscreenTimeoutSeconds])

\* The callback of OFFSCREEN_CLEAR_CLIPBOARD runs: with the answer of the
\* document, which ran its clearClipboard ({ success: true } or { success:
\* false }), or with lastError.
OffscreenClearAnswered ==
  /\ chain.pc = "awaitClear"
  /\ LET result == OffscreenClearClipboard(clipboardApi, clipboard) IN
     \/ ClearerRuns(AfterOffscreenSend(chain, IF result.success THEN "success" ELSE "failure"),
                    result.content)
     \/ ClearerStep(AfterOffscreenSend(chain, "error"))

\* The 3 s timer rejects the send.
OffscreenTimeout ==
  /\ OffscreenTimerDue
  /\ ClearerStep(AfterOffscreenSend(chain, "error"))

\* offscreen.html opened as a tab or window runs clearClipboard when it loads;
\* `ran`: it got that far before it was closed.
EphemeralPage(ran) ==
  IF ran THEN OffscreenClearClipboard(clipboardApi, clipboard).content ELSE clipboard

\* The pages the ephemeral step opens: an inactive tab, a minimized popup
\* window, a normal popup window.
AuxiliaryPages == {"tab", "minimized window", "window"}
GracePc(page) ==
  CASE page = "tab" -> "graceTab"
    [] page = "minimized window" -> "graceMinimizedWindow"
    [] page = "window" -> "graceWindow"

\* The ephemeral step that forgets its page: the fault C30 has to catch.
AuxiliaryAfterRemoveKept(aux, page) == aux

\* chrome.tabs.remove(tab.id) / chrome.windows.remove(win.id): tab and win are
\* what the create call resolved with.
AuxiliaryAfterRemove(aux, page) == aux \ {page}

\* offscreen.html is opened as `page`, or the create calls threw ("none"): the
\* function waits 700 ms (a tab) or 800 ms (a window), or returns false.
OpensEphemeral(page, ran) ==
  IF page = "none"
    THEN ClearerStep(AfterEphemeral(Attempt(chain, 5), FALSE))
    ELSE ClearerActs([Attempt(chain, 5) EXCEPT !.pc = GracePc(page)], EphemeralPage(ran),
                     auxiliary \cup {page})

\* Step 5 when the offscreen document is not ready: chrome.tabs.create, and
\* chrome.windows.create (minimized) when that throws.
ClearerOpensEphemeralTab ==
  /\ chain.pc = "ephemeralTab"
  /\ \E page \in {"tab", "minimized window", "none"}, ran \in BOOLEAN : OpensEphemeral(page, ran)

\* Step 5 when the offscreen document did not clear: chrome.windows.create.
ClearerOpensEphemeralWindow ==
  /\ chain.pc = "ephemeralWindow"
  /\ \E page \in {"window", "none"}, ran \in BOOLEAN : OpensEphemeral(page, ran)

\* The grace period is over: the page is removed and the function returns
\* true, whatever the page did.
ClearerRemovesEphemeral ==
  \E page \in AuxiliaryPages :
    /\ chain.pc = GracePc(page)
    /\ ClearerActs(AfterEphemeral(chain, TRUE), clipboard, AuxiliaryAfterRemove(auxiliary, page))

\* The clearClipboard call that was followed returns.
ClearerEnds ==
  /\ chain.pc = "done"
  /\ ClearClipboardSettles(chain.cleared)
  /\ chain' = IdleChain

\* -------------------------------------------------------------- loadSettings
\* chrome.runtime.onStartup / onInstalled: loadSettings is called and awaits
\* chrome.storage.sync.get.
OnStartupOrInstalled ==
  /\ Len(loads) < MaxInFlight
  /\ loads' = Append(loads, [ensure |-> FALSE])
  /\ UNCHANGED <<coordinatorVars, timeouts, countdownIntervals, badge, badgeTimers,
                 updates, clearing, storage, detectorVars, clearerVars, popup>>

\* The settings object after loadSettings resumes: the three fields are assigned
\* from the result, or, in the catch, the object is replaced by the defaults.
SettingsAfterLoad(failed) ==
  IF failed THEN DefaultSettings ELSE SettingsFromStorage(storage)

\* loadSettings after its await (the read resolves with what storage holds, or
\* rejects); the finally of ensureSettingsLoaded when the call came from there.
LoadSettingsDone ==
  \E i \in 1..Len(loads), failed \in BOOLEAN :
    /\ settings' = SettingsAfterLoad(failed)
    /\ settingsInitialized' = TRUE
    /\ settingsInitPromise' = IF loads[i].ensure THEN FALSE ELSE settingsInitPromise
    /\ loads' = SubSeq(loads, 1, i - 1) \o SubSeq(loads, i + 1, Len(loads))
    /\ IF loads[i].ensure
         THEN sendResponseLater("GET_SETTINGS", Undef, settings')
         ELSE UNCHANGED popup
    /\ UNCHANGED <<clearTimer, timeouts, countdownIntervals, badge, badgeTimers, updates,
                   clearing, storage, detectorVars, clearerVars>>

\* ------------------------------------------------------------ message router
\* A router without the `if (settings.enabled)` around the paste: the fault C3
\* has to catch.
QualifiesWhileDisabled(message) ==
  ~settings.clearOnlyOnPasswordPaste \/ message.isPassword = "true"

\* A qualifying paste, as the router judges it: if (settings.enabled) { const
\* isPassword = Boolean(message.isPassword); if (!settings.clearOnlyOnPasswordPaste
\* || isPassword) ...
Qualifies(message) ==
  /\ settings.enabled
  /\ (~settings.clearOnlyOnPasswordPaste \/ message.isPassword = "true")

\* case 'PASTE_DETECTED'
OnPasteDetected(message) ==
  IF Qualifies(message)
    THEN /\ Cardinality(countdownIntervals) < MaxCountdowns
         /\ handlePasteEvent
    ELSE UNCHANGED <<clearTimer, timeouts, countdownIntervals, badge>>

\* default: a message type the router does not know (COPY_DETECTED is one).
OnUnknownMessage(message) ==
  UNCHANGED <<clearTimer, timeouts, countdownIntervals, badge>>

\* The router's switch (message.type), for the messages a content script sends.
OnMessage(message) ==
  /\ IF message.type = "PASTE_DETECTED"
       THEN OnPasteDetected(message)
       ELSE OnUnknownMessage(message)
  /\ UNCHANGED <<settings, settingsInitialized, settingsInitPromise, badgeTimers, loads,
                 updates, clearing, storage>>

\* What a sender's callback is called with: the object the router passed to
\* sendResponse, with its success field and the words of its error or message
\* field.  NoReply: the sender has sent nothing yet, or awaits the answer.
NoReply == [type |-> "none", success |-> Undef, error |-> <<>>, message |-> <<>>]
UnknownTypeError == <<"Unknown", "message", "type">>
DisabledMessage == <<"Extension", "is", "disabled">>

\* A router that acknowledges only the pastes that start a countdown: the
\* fault C31 has to catch.
RouterResponseQualifying(message) ==
  [type |-> message.type, success |-> BoolText(Qualifies(message)), error |-> <<>>,
   message |-> <<>>]

\* The sendResponse of the router for a content script's message: { success:
\* true } at the end of case 'PASTE_DETECTED', { success: false, error:
\* 'Unknown message type' } in the default case.
RouterResponse(message) ==
  IF message.type = "PASTE_DETECTED"
    THEN [type |-> message.type, success |-> "true", error |-> <<>>, message |-> <<>>]
    ELSE [type |-> message.type, success |-> "false", error |-> UnknownTypeError,
          message |-> <<>>]

\* The messages content scripts send: the type, and isPassword as part_002 sets it
\* or absent as content.js and part_000 leave it.  `text` and `field` are not
\* sent: they are the pasted text and the element it went to, which made the
\* script send the message.
PasteMessage(isPassword, text, field) ==
  [type |-> "PASTE_DETECTED", isPassword |-> isPassword, text |-> text, field |-> field]

CopyMessage ==
  [type |-> "COPY_DETECTED", isPassword |-> Undef, text |-> <<>>, field |-> Undef]

\* case 'GET_SETTINGS', with ensureSettingsLoaded
OnGetSettings ==
  /\ IF settingsInitialized \/ settingsInitPromise
       THEN UNCHANGED <<settingsInitPromise, loads>>
       ELSE /\ Len(loads) < MaxInFlight
            /\ settingsInitPromise' = TRUE
            /\ loads' = Append(loads, [ensure |-> TRUE])
  /\ IF settingsInitialized
       THEN sendResponse(Request("GET_SETTINGS", Undef), Undef, settings)
       ELSE keepChannelOpen(Request("GET_SETTINGS", Undef))
  /\ UNCHANGED <<clearTimer, settings, settingsInitialized, timeouts, countdownIntervals,
                 badge, badgeTimers, updates, clearing, storage, detectorVars, clearerVars>>

\* chrome.storage.sync.set of one key: the write lands, or the call rejects.
StorageSet(key, value, ok) ==
  storage' = IF ok THEN [storage EXCEPT ![key] = value] ELSE storage

\* A TOGGLE_EXTENSION that leaves the clear timer pending: the fault C5 has to
\* catch.
TimeoutsAfterToggleKept(enabled) == timeouts

\* The clear timers after TOGGLE_EXTENSION: if (!settings.enabled && clearTimer)
\* { clearTimeout(clearTimer); clearTimer = null; ... }
TimeoutsAfterToggle(enabled) ==
  IF ~enabled /\ clearTimer # Null THEN clearTimeout(timeouts, clearTimer) ELSE timeouts

\* case 'TOGGLE_EXTENSION'
OnToggleExtension(enabled, ok) ==
  /\ settings' = [settings EXCEPT !.enabled = enabled]
  /\ timeouts' = TimeoutsAfterToggle(enabled)
  /\ clearTimer' = IF ~enabled /\ clearTimer # Null THEN Null ELSE clearTimer
  /\ badge' = IF enabled THEN "" ELSE "OFF"
  /\ badgeTimers' = IF enabled THEN badgeTimers ELSE badgeTimers \cup {BadgeHoldSeconds}
  /\ StorageSet("extensionEnabled", BoolText(enabled), ok)
  /\ sendResponse(Request("TOGGLE_EXTENSION", BoolText(enabled)), "true", settings')
  /\ UNCHANGED <<settingsInitialized, settingsInitPromise, countdownIntervals, loads,
                 updates, clearing, detectorVars, clearerVars>>

\* case 'UPDATE_SETTINGS': updateSettings up to its await.
OnUpdateSettings(newInterval, ok) ==
  /\ Len(updates) < MaxInFlight
  /\ settings' = [settings EXCEPT !.interval = newInterval]
  /\ StorageSet("clipboardInterval", newInterval, ok)
  /\ updates' = Append(updates, [ok |-> ok])
  /\ keepChannelOpen(Request("UPDATE_SETTINGS", NumberText(newInterval)))
  /\ UNCHANGED <<clearTimer, settingsInitialized, settingsInitPromise, timeouts,
                 countdownIntervals, badge, badgeTimers, loads, clearing, detectorVars,
                 clearerVars>>

\* An updateSettings that sets a timer whether or not one is pending: the fault
\* C38 has to catch.
TimeoutsAfterUpdateUnguarded(ok, h) ==
  IF ok
    THEN clearTimeout(timeouts, clearTimer)
           \cup {[h |-> h, left |-> settings.interval, cd |-> Null]}
    ELSE timeouts

\* The clear timers after updateSettings resumes: in the try, if (clearTimer)
\* { clearTimeout(clearTimer); clearTimer = setTimeout(..., settings.interval *
\* 1000) }; a rejected write jumps to the catch, past the rescheduling.
TimeoutsAfterUpdate(ok, h) ==
  IF ok /\ clearTimer # Null
    THEN clearTimeout(timeouts, clearTimer)
           \cup {[h |-> h, left |-> settings.interval, cd |-> Null]}
    ELSE timeouts

\* updateSettings after its await, as far as the worker and the popup go; it
\* catches the rejected write itself, so the router's .then answers { success:
\* true } either way.
UpdateSettingsResumes ==
  /\ updates # <<>>
  /\ LET ok == Head(updates).ok
         h == FreshHandle
     IN
     /\ updates' = Tail(updates)
     /\ timeouts' = TimeoutsAfterUpdate(ok, h)
     /\ clearTimer' = IF ok /\ clearTimer # Null THEN h ELSE clearTimer
  /\ sendResponseLater("UPDATE_SETTINGS", "true", settings)
  /\ UNCHANGED <<settings, settingsInitialized, settingsInitPromise, countdownIntervals,
                 badge, badgeTimers, loads, clearing, storage, clearerVars>>

\* updateSettings after its await.
UpdateSettingsDone == UpdateSettingsResumes /\ UNCHANGED detectorVars

\* The same when the UPDATE_SETTINGS came from the sender that is followed:
\* updateSettings(...).then(() => sendResponse({ success: true })).
UpdateSettingsAnswered ==
  /\ UpdateSettingsResumes
  /\ reply' = [type |-> "UPDATE_SETTINGS", success |-> "true", error |-> <<>>,
               message |-> <<>>]
  /\ UNCHANGED <<outbox, script, call, extensionContextValid, runtimeId, pageVars>>

\* case 'UPDATE_PASSWORD_ONLY': the response follows the awaited write and tells
\* whether it landed.
OnUpdatePasswordOnly(value, ok) ==
  /\ settings' = [settings EXCEPT !.clearOnlyOnPasswordPaste = value]
  /\ StorageSet("clearOnlyOnPasswordPaste", BoolText(value), ok)
  /\ sendResponse(Request("UPDATE_PASSWORD_ONLY", BoolText(value)), BoolText(ok), settings')
  /\ UNCHANGED <<clearTimer, settingsInitialized, settingsInitPromise, timeouts,
                 countdownIntervals, badge, badgeTimers, loads, updates, clearing,
                 detectorVars, clearerVars>>

\* A case 'CLEAR_CLIPBOARD_NOW' without its `if (!settings.enabled)`: the
\* fault C32 has to catch.
ClearNowCaseUnguarded ==
  /\ clearing < MaxInFlight
  /\ clearClipboard({})
  /\ keepChannelOpen(Request("CLEAR_CLIPBOARD_NOW", Undef))
  /\ UNCHANGED <<settings, settingsInitialized, settingsInitPromise, countdownIntervals,
                 badge, badgeTimers, loads, updates, storage, clearerVars>>

\* case 'CLEAR_CLIPBOARD_NOW', as far as the worker and the popup go.
ClearNowCase ==
  /\ IF settings.enabled
       THEN /\ clearing < MaxInFlight
            /\ clearClipboard({})
            /\ keepChannelOpen(Request("CLEAR_CLIPBOARD_NOW", Undef))
       ELSE /\ UNCHANGED <<timeouts, clearTimer, clearing>>
            /\ sendResponse(Request("CLEAR_CLIPBOARD_NOW", Undef), "false", settings)
  /\ UNCHANGED <<settings, settingsInitialized, settingsInitPromise, countdownIntervals,
                 badge, badgeTimers, loads, updates, storage, clearerVars>>

\* case 'CLEAR_CLIPBOARD_NOW'
OnClearClipboardNow == ClearNowCase /\ UNCHANGED detectorVars

\* The sendResponse of case 'CLEAR_CLIPBOARD_NOW' inside the listener: a
\* disabled worker answers at once; an enabled one returns true and answers
\* when clearClipboard has returned.
ClearNowResponse ==
  IF settings.enabled
    THEN NoReply
    ELSE [type |-> "CLEAR_CLIPBOARD_NOW", success |-> "false", error |-> <<>>,
          message |-> DisabledMessage]

\* The popup's messages; the write to storage lands or not.
PopupSavesInterval == \E n \in Intervals, ok \in BOOLEAN : OnUpdateSettings(n, ok)

\* The numbers an UPDATE_SETTINGS message may carry in message.interval, from
\* whichever context of the extension sends it: the router takes
\* Number(message.interval) as it comes.
MessageIntervals == {0 - 1, 0, MinInterval, MaxDelay + 1}

\* An UPDATE_SETTINGS message arrives at the router.
UpdateSettingsArrives == \E n \in MessageIntervals : OnUpdateSettings(n, TRUE)

\* The popup's messages while chrome.storage.sync takes every write.
PopupTogglesSaved == \E enabled \in BOOLEAN : OnToggleExtension(enabled, TRUE)
PopupSavesIntervalSaved == \E n \in Intervals : OnUpdateSettings(n, TRUE)
PopupSetsPasswordOnlySaved == \E value \in BOOLEAN : OnUpdatePasswordOnly(value, TRUE)

\* ------------------------------------------------------- the popup's requests
\* new Promise(...) around chrome.runtime.sendMessage: the message goes out and
\* the 5 s timer starts.  One request of the popup is followed at a time.
PopupSends(p, request) ==
  /\ popup.phase = "idle"
  /\ popup' = [p EXCEPT !.request = request, !.phase = "sent", !.left = PopupTimeoutSeconds,
                         !.outcome = "none", !.success = Undef]
  /\ UNCHANGED <<coordinatorVars, timeouts, countdownIntervals, badge, badgeTimers, loads,
                 updates, clearing, storage, detectorVars, clearerVars>>

\* DOMContentLoaded of the popup: loadCurrentSettings.
PopupOpens == PopupSends(popup, Request("GET_SETTINGS", Undef))

\* toggleExtension, up to its await: the user has flipped the switch.
UserFlipsSwitch ==
  LET enabled == ~popup.enableToggle IN
  PopupSends(updateUI([popup EXCEPT !.enableToggle = enabled], enabled),
             Request("TOGGLE_EXTENSION", BoolText(enabled)))

\* What the user types into the delay control.
Digits == <<"0", "1", "2", "3", "4", "5", "6", "7", "8", "9">>
IsDigit(c) == \E d \in 1..10 : Digits[d] = c
DigitValue(c) == (CHOOSE d \in 1..10 : Digits[d] = c) - 1

TypedTexts ==
  {<<>>, <<"a">>, <<"0">>, <<"1">>, <<"-", "1">>, <<"1", ".", "5">>, <<"3", "0", "0">>,
   <<"3", "0", "1">>}

\* The digits a text starts with, as a number; acc is the number read so far.
RECURSIVE LeadingDigits(_, _)
LeadingDigits(text, acc) ==
  IF text # <<>> /\ IsDigit(Head(text))
    THEN LeadingDigits(Tail(text), 10 * acc + DigitValue(Head(text)))
    ELSE acc

\* parseInt(intervalInput.value): an optional sign, then the leading digits; NaN
\* when there is none.
parseInt(text) ==
  LET negative == text # <<>> /\ Head(text) = "-"
      digits == IF negative THEN Tail(text) ELSE text
  IN IF digits = <<>> \/ ~IsDigit(Head(digits))
       THEN [nan |-> TRUE, n |-> 0]
       ELSE [nan |-> FALSE,
             n |-> IF negative THEN 0 - LeadingDigits(digits, 0) ELSE LeadingDigits(digits, 0)]

\* isNaN(interval) || interval < 1 || interval > 300
Refused(interval) == interval.nan \/ interval.n < MinInterval \/ interval.n > MaxDelay

\* The delays an UPDATE_SETTINGS of the popup can carry.
SentIntervals ==
  Intervals \cup {parseInt(text).n : text \in {t \in TypedTexts : ~Refused(parseInt(t))}}

\* autoSaveInterval, up to its await or to its early return: the user has typed
\* a text.  intervalInput holds the delay the control last gave.
UserTypesInterval ==
  \E text \in TypedTexts :
    LET interval == parseInt(text) IN
    IF Refused(interval)
      THEN /\ popup.phase = "idle"
           /\ popup' = [popup EXCEPT !.status = "error"]
           /\ UNCHANGED <<coordinatorVars, timeouts, countdownIntervals, badge, badgeTimers,
                          loads, updates, clearing, storage, detectorVars, clearerVars>>
      ELSE PopupSends([popup EXCEPT !.intervalInput = interval.n],
                      Request("UPDATE_SETTINGS", NumberText(interval.n)))

\* autoSaveInterval, up to its await: the user has typed a valid delay, the
\* shortest one.
UserEditsInterval ==
  PopupSends([popup EXCEPT !.intervalInput = MinInterval],
             Request("UPDATE_SETTINGS", NumberText(MinInterval)))

\* togglePasswordOnly, up to its await.
UserFlipsPasswordOnly ==
  LET value == ~popup.passwordOnlyToggle IN
  PopupSends([popup EXCEPT !.passwordOnlyToggle = value],
             Request("UPDATE_PASSWORD_ONLY", BoolText(value)))

\* clearClipboardNow, up to its await: clearNowBtn.disabled = true.
UserClicksClearNow ==
  /\ ~popup.clearNowDisabled
  /\ PopupSends([popup EXCEPT !.clearNowDisabled = TRUE], Request("CLEAR_CLIPBOARD_NOW", Undef))

\* The router's switch (message.type), for the message the popup has sent; of
\* the writes to storage, the one whose outcome the response tells may fail.
PopupRequestArrives ==
  /\ popup.phase = "sent"
  /\ LET type == popup.request.type
         arg == popup.request.arg
     IN
     \/ type = "GET_SETTINGS" /\ OnGetSettings
     \/ type = "TOGGLE_EXTENSION" /\ OnToggleExtension(arg = "true", TRUE)
     \/ /\ type = "UPDATE_SETTINGS"
        /\ \E n \in SentIntervals : NumberText(n) = arg /\ OnUpdateSettings(n, TRUE)
     \/ /\ type = "UPDATE_PASSWORD_ONLY"
        /\ \E ok \in BOOLEAN : OnUpdatePasswordOnly(arg = "true", ok)
     \/ type = "CLEAR_CLIPBOARD_NOW" /\ OnClearClipboardNow

\* The router's switch for the three requests of the popup that save a setting;
\* the write to chrome.storage.sync lands or rejects.
PopupSaveArrives ==
  /\ popup.phase = "sent"
  /\ LET type == popup.request.type
         arg == popup.request.arg
     IN
     \E ok \in BOOLEAN :
       \/ type = "TOGGLE_EXTENSION" /\ OnToggleExtension(arg = "true", ok)
       \/ /\ type = "UPDATE_SETTINGS"
          /\ \E n \in SentIntervals : NumberText(n) = arg /\ OnUpdateSettings(n, ok)
       \/ type = "UPDATE_PASSWORD_ONLY" /\ OnUpdatePasswordOnly(arg = "true", ok)

\* The callback of sendMessage runs with chrome.runtime.lastError set: the
\* worker could not be reached, or the channel closed without a response.
PopupTransportError ==
  /\ popup.phase # "idle"
  /\ popup' = PopupSettled("error", Undef, settings)
  /\ UNCHANGED <<coordinatorVars, timeouts, countdownIntervals, badge, badgeTimers, loads,
                 updates, clearing, storage, detectorVars, clearerVars>>

\* The popup's 5 s timer fires before the callback of sendMessage ran: reject.
PopupTimeout ==
  /\ PopupTimerDue
  /\ popup' = PopupSettled("timeout", Undef, settings)
  /\ UNCHANGED <<coordinatorVars, timeouts, countdownIntervals, badge, badgeTimers, loads,
                 updates, clearing, storage, detectorVars, clearerVars>>

\* ------------------------------------------------------------ timer callbacks
\* The callback of a clear timer: the one handlePasteEvent made first stops its
\* countdown interval (clearInterval(countdownInterval)); both call
\* clearClipboard().
ClearTimerFires ==
  \E t \in Due(timeouts) :
    /\ clearing < MaxInFlight
    /\ countdownIntervals' = {c \in countdownIntervals : c.id # t.cd}
    /\ clearClipboard({t})
    /\ UNCHANGED <<settings, settingsInitialized, settingsInitPromise, badge, badgeTimers,
                   loads, updates, storage, detectorVars, clearerVars, popup>>

\* The callback of handlePasteEvent's setInterval: timeLeft--; the badge is
\* written while timeLeft > 0, else the interval stops itself.
CountdownTick ==
  \E c \in Due(countdownIntervals) :
    LET n == c.timeLeft - 1 IN
    /\ countdownIntervals' =
         (countdownIntervals \ {c}) \cup
           (IF n > 0 THEN {[id |-> c.id, timeLeft |-> n, left |-> CountdownPeriod]} ELSE {})
    /\ badge' = IF n > 0 THEN NumberText(n) ELSE badge
    /\ UNCHANGED <<coordinatorVars, timeouts, badgeTimers, loads, updates, clearing, storage,
                   detectorVars, clearerVars, popup>>

\* setTimeout(() => chrome.action.setBadgeText({ text: '' }), 2000)
BadgeTimerFires ==
  /\ 0 \in badgeTimers
  /\ badge' = ""
  /\ badgeTimers' = badgeTimers \ {0}
  /\ UNCHANGED <<coordinatorVars, timeouts, countdownIntervals, loads, updates, clearing,
                 storage, detectorVars, clearerVars, popup>>

\* One second passes; every timer that was due has run.
Tick ==
  /\ Due(timeouts) = {}
  /\ Due(countdownIntervals) = {}
  /\ 0 \notin badgeTimers
  /\ ~PopupTimerDue
  /\ ~OffscreenTimerDue
  /\ \/ timeouts # {} \/ countdownIntervals # {} \/ badgeTimers # {}
     \/ popup.phase # "idle" \/ chain.timed
  /\ timeouts' = {[t EXCEPT !.left = @ - 1] : t \in timeouts}
  /\ countdownIntervals' = {[c EXCEPT !.left = @ - 1] : c \in countdownIntervals}
  /\ badgeTimers' = {d - 1 : d \in badgeTimers}
  /\ popup' = IF popup.phase # "idle" THEN [popup EXCEPT !.left = @ - 1] ELSE popup
  /\ chain' = IF chain.timed THEN [chain EXCEPT !.left = @ - 1] ELSE chain
  /\ UNCHANGED <<coordinatorVars, badge, loads, updates, clearing, storage, detectorVars,
                 tabs, offscreenApi, clipboard, clipboardApi, auxiliary>>

\* The browser tears the service worker down; the next event starts it afresh:
\* the script's top level runs again, timers and awaited calls are gone, storage
\* and the badge stay.  A message channel the worker held open closes, and the
\* sender's callback runs with chrome.runtime.lastError set.
Teardown ==
  /\ clearTimer' = Null
  /\ settings' = DefaultSettings
  /\ settingsInitialized' = FALSE
  /\ settingsInitPromise' = FALSE
  /\ timeouts' = {}
  /\ countdownIntervals' = {}
  /\ badgeTimers' = {}
  /\ loads' = <<>>
  /\ updates' = <<>>
  /\ clearing' = 0
  /\ chain' = IdleChain
  /\ popup' = IF popup.phase = "held" THEN PopupSettled("error", Undef, settings) ELSE popup
  /\ UNCHANGED <<badge, storage, detectorVars, tabs, offscreenApi, clipboard, clipboardApi,
                 auxiliary>>

\* ------------------------------------------------------------ content scripts
\* String.prototype.trim on a text: blanks are dropped from both ends.
RECURSIVE TrimLeft(_)
TrimLeft(text) ==
  IF text # <<>> /\ Head(text) = " " THEN TrimLeft(Tail(text)) ELSE text

RECURSIVE TrimRight(_)
TrimRight(text) ==
  IF text # <<>> /\ text[Len(text)] = " "
    THEN TrimRight(SubSeq(text, 1, Len(text) - 1))
    ELSE text

trim(text) == TrimRight(TrimLeft(text))

\* /(^|\s)(current-password|new-password|one-time-code)(\s|$)/.test(ac): one of
\* the three tokens, with the start or a blank before it and a blank or the end
\* after it.
PasswordTokens == {"current-password", "new-password", "one-time-code"}
HasPasswordToken(ac) ==
  \E k \in 1..Len(ac) :
    /\ ac[k] \in PasswordTokens
    /\ k = 1 \/ ac[k - 1] = " "
    /\ k = Len(ac) \/ ac[k + 1] = " "

\* isPasswordField of the second script body of content.js: for an input
\* element its type, the tokens current-password and new-password, a name or id
\* that includes 'password', or a computed -webkit-text-security other than
\* 'none'; el.closest(...) of another element is no input in these pages.
isPasswordFieldContent(el) ==
  /\ el.tag = "input"
  /\ \/ el.type = "password"
     \/ \E k \in 1..Len(el.autocomplete) :
          /\ el.autocomplete[k] \in {"current-password", "new-password"}
          /\ k = 1 \/ el.autocomplete[k - 1] = " "
          /\ k = Len(el.autocomplete) \/ el.autocomplete[k + 1] = " "
     \/ \E k \in 1..Len(el.name) : el.name[k] = "password"
     \/ el.security # "" /\ el.security # "none"

\* isPasswordField of part_002 (the narrow rule set): el.closest('input') must
\* be an input; then its type, its autocomplete tokens, or a computed
\* -webkit-text-security that has a value other than 'none'.
isPasswordField(el) ==
  /\ el.tag = "input"
  /\ \/ el.type = "password"
     \/ HasPasswordToken(el.autocomplete)
     \/ el.security # "" /\ el.security # "none"

\* handlePasteEvent of content.js and of part_002:
\* typeof text === 'string' && text.trim() !== ''
NonBlank(text) == trim(text) # <<>>

\* The second script body of content.js, run where the first has not set
\* window.clipboardSecurityInjected; it and part_002 classify the paste target.
SecondBody == "content.js (second body)"
ClassifyingScripts == {"part_002", SecondBody}

\* Whether a script calls notifyPasteEvent for a paste seen on a path.
\* content.js is two script bodies in one file: the first sets
\* window.clipboardSecurityInjected and the second returns at its guard, so the
\* first body is the one that runs.
NotifiesPaste(s, path, text) ==
  CASE s = "content.js" ->
         /\ path \in {"paste-listener", "context-menu-listener", "readText"}
         /\ NonBlank(text)
    [] s = "part_000" -> TRUE
    [] s \in ClassifyingScripts ->
         /\ path \in {"paste-listener", "context-menu-listener"}
         /\ NonBlank(text)

\* The isPassword field of the PASTE_DETECTED message a script sends.
IsPasswordSent(s, el) ==
  CASE s = "part_002" -> BoolText(isPasswordField(el))
    [] s = SecondBody -> BoolText(isPasswordFieldContent(el))
    [] OTHER -> Undef

\* Error messages, as the words they are made of.
ContextInvalidatedError == <<"Extension", "context", "invalidated", ".">>
NoReceiverError ==
  <<"Could", "not", "establish", "connection", ".", "Receiving", "end", "does", "not",
    "exist", ".">>
PortClosedError ==
  <<"The", "message", "port", "closed", "before", "a", "response", "was", "received", ".">>
TooLongError == <<"Message", "length", "exceeded", "maximum", "allowed", "length", ".">>
NoFunctionError == <<"chrome.runtime", ".sendMessage", "is", "not", "a", "function">>
InvocationError ==
  <<"Invocation", "of", "form", "runtime.sendMessage", "does", "not", "match", "definition">>
QuotaError == <<"Quota", "exceeded">>

\* chrome.runtime.lastError.message in the callback of sendMessage.
LastErrors == {ContextInvalidatedError, NoReceiverError, PortClosedError, TooLongError}
\* error.message of what chrome.runtime.sendMessage throws.
ThrownErrors == {ContextInvalidatedError, NoFunctionError, InvocationError, QuotaError}

\* What a chrome.runtime.sendMessage of the script meets.
Up == [kind |-> "up", message |-> <<>>]
Transports ==
  {Up} \cup {[kind |-> "lastError", message |-> e] : e \in LastErrors}
       \cup {[kind |-> "throws", message |-> e] : e \in ThrownErrors}

\* String.prototype.includes
Includes(text, pattern) ==
  \E k \in 0..(Len(text) - Len(pattern)) : SubSeq(text, k + 1, k + Len(pattern)) = pattern

\* A callback that takes every runtime error for the end of the extension: the
\* fault C17 has to catch.
InvalidatesInCallbackAlways(error) == TRUE

\* The test on chrome.runtime.lastError.message in the callback.
InvalidatesInCallback(error) ==
  \/ Includes(error, <<"Extension", "context", "invalidated">>)
  \/ Includes(error, <<"Receiving", "end", "does", "not", "exist">>)
  \/ Includes(error, <<"message", "port", "closed">>)

\* The test on error.message in the catch.
InvalidatesWhenThrown(error) ==
  \/ Includes(error, <<"Extension", "context", "invalidated">>)
  \/ Includes(error, <<"chrome.runtime">>)
  \/ Includes(error, <<"Invocation", "of", "form">>)

\* No context menu was opened: no timer of handleContextMenu is pending and no
\* contextMenuListener is installed.
NoMenu == [timers |-> 0, oneShots |-> 0]

\* The events of one paste or copy that n listeners report.
EventsOf(message, n) == [j \in 1..n |-> message]

\* The events of one paste or copy: every installed set of listeners reports it.
Events(message) == EventsOf(message, listeners)

\* sendMessageSafely, called by each of n listeners of one event: without
\* chrome.runtime.id the script marks itself dead and sends nothing; else
\* chrome.runtime.sendMessage, whose error (thrown, or lastError in the
\* callback) marks the script dead when it matches.
sendMessageSafelyBy(message, n) ==
  IF ~runtimeId
    THEN /\ extensionContextValid' = FALSE
         /\ UNCHANGED outbox
  ELSE IF transport.kind = "throws"
    THEN /\ extensionContextValid' =
              (extensionContextValid /\ ~InvalidatesWhenThrown(transport.message))
         /\ UNCHANGED outbox
  ELSE IF transport.kind = "lastError"
    THEN /\ extensionContextValid' =
              (extensionContextValid /\ ~InvalidatesInCallback(transport.message))
         /\ UNCHANGED outbox
  ELSE /\ outbox' = outbox \o EventsOf(message, n)
       /\ UNCHANGED extensionContextValid

\* sendMessageSafely, for an event that the installed sets of listeners report.
sendMessageSafely(message) == sendMessageSafelyBy(message, listeners)

\* What sendMessageSafely lets through to its caller when it does not guard the
\* send: the fault C33 has to catch.
EscapesUnguarded ==
  IF runtimeId /\ transport.kind = "throws" THEN transport.message ELSE <<>>

\* What sendMessageSafely lets through to its caller, as the words of the
\* exception: nothing, the id test and the send are inside its try.
Escapes == <<>>

\* notifyPasteEvent
notifyPasteEvent(isPassword, text, field) ==
  IF ~extensionContextValid
    THEN UNCHANGED <<outbox, extensionContextValid>>
    ELSE sendMessageSafely(PasteMessage(isPassword, text, field))

\* notifyCopyEvent
notifyCopyEvent ==
  IF ~extensionContextValid
    THEN UNCHANGED <<outbox, extensionContextValid>>
    ELSE sendMessageSafely(CopyMessage)

\* The user pastes `text` into `el`, and the script sees it on `path`.
Paste(text, el, path) ==
  /\ listeners > 0
  /\ Len(outbox) < MaxInFlight
  /\ IF NotifiesPaste(script, path, text)
       THEN notifyPasteEvent(IsPasswordSent(script, el), text, el)
       ELSE UNCHANGED <<outbox, extensionContextValid>>
  /\ UNCHANGED <<coordinatorVars, timeouts, countdownIntervals, badge, badgeTimers, loads,
                 updates, clearing, storage, script, call, reply, runtimeId, pageVars,
                 clearerVars, popup>>

UserPastes == \E text \in Texts, el \in Elements, path \in Paths : Paste(text, el, path)

\* The user pastes a word into a text area.
TextArea == Field("textarea", "", <<>>, "none", <<>>)
UserPastesWord == \E path \in Paths : Paste(<<"a">>, TextArea, path)

\* The user pastes a word into some field, and the paste listener sees it.
UserPastesIntoField == \E el \in Fields : Paste(<<"a">>, el, "paste-listener")

\* ------------------------------------------------------------ the context menu
MaxMenus == 2   \* timers and one-shot listeners of handleContextMenu at once

\* The contextMenuListeners after the timer of handleContextMenu has run:
\* addEventListener with a new closure each time, so one more.
OneShotsAfterTimer(n) == n + 1

\* The user opens the context menu: each handleContextMenu that listens sets its
\* 100 ms timer.
UserOpensContextMenu ==
  /\ listeners > 0
  /\ contextMenu.timers + contextMenu.oneShots + listeners <= MaxMenus
  /\ contextMenu' = [contextMenu EXCEPT !.timers = @ + listeners]
  /\ UNCHANGED <<coordinatorVars, timeouts, countdownIntervals, badge, badgeTimers, loads,
                 updates, clearing, storage, outbox, script, call, reply,
                 extensionContextValid, runtimeId, transport, runs,
                 clipboardSecurityInjected, listenersSetup, listeners, readyState,
                 domListeners, clearerVars, popup>>

\* A timer of handleContextMenu runs: contextMenuListener is added for 'paste'
\* (and, in content.js and part_000, for 'copy' and 'cut').
ContextMenuTimerFires ==
  /\ contextMenu.timers > 0
  /\ contextMenu' = [timers |-> contextMenu.timers - 1,
                     oneShots |-> OneShotsAfterTimer(contextMenu.oneShots)]
  /\ UNCHANGED <<coordinatorVars, timeouts, countdownIntervals, badge, badgeTimers, loads,
                 updates, clearing, storage, outbox, script, call, reply,
                 extensionContextValid, runtimeId, transport, runs,
                 clipboardSecurityInjected, listenersSetup, listeners, readyState,
                 domListeners, clearerVars, popup>>

\* The document gets a paste event with `text` for `el`: handlePasteEvent runs
\* as the permanent listener of every set and once in every
\* contextMenuListener, which then removes itself.
PasteEvent(text, el) ==
  /\ listeners > 0
  /\ Len(outbox) < MaxInFlight
  /\ IF NotifiesPaste(script, "paste-listener", text) /\ extensionContextValid
       THEN sendMessageSafelyBy(PasteMessage(IsPasswordSent(script, el), text, el),
                                listeners + contextMenu.oneShots)
       ELSE UNCHANGED <<outbox, extensionContextValid>>
  /\ contextMenu' = [contextMenu EXCEPT !.oneShots = 0]
  /\ UNCHANGED <<coordinatorVars, timeouts, countdownIntervals, badge, badgeTimers, loads,
                 updates, clearing, storage, script, call, reply, runtimeId, transport, runs,
                 clipboardSecurityInjected, listenersSetup, listeners, readyState,
                 domListeners, clearerVars, popup>>

\* The user pastes, from the context menu or with the keyboard.
UserPastesEvent == \E text \in Texts, el \in Elements : PasteEvent(text, el)

\* The document gets a copy or cut event: handleCopyEvent of content.js and
\* part_000 reports it, and so does every contextMenuListener of theirs before
\* it removes itself; part_002 listens for neither.
UserCopiesEvent ==
  /\ listeners > 0
  /\ Len(outbox) < MaxInFlight
  /\ script \in {"content.js", "part_000"}
  /\ IF extensionContextValid
       THEN sendMessageSafelyBy(CopyMessage, listeners + contextMenu.oneShots)
       ELSE UNCHANGED <<outbox, extensionContextValid>>
  /\ contextMenu' = [contextMenu EXCEPT !.oneShots = 0]
  /\ UNCHANGED <<coordinatorVars, timeouts, countdownIntervals, badge, badgeTimers, loads,
                 updates, clearing, storage, script, call, reply, runtimeId, transport, runs,
                 clipboardSecurityInjected, listenersSetup, listeners, readyState,
                 domListeners, clearerVars, popup>>

\* The user copies or cuts; content.js and part_000 listen for that.
UserCopies ==
  /\ listeners > 0
  /\ Len(outbox) < MaxInFlight
  /\ script \in {"content.js", "part_000"}
  /\ notifyCopyEvent
  /\ UNCHANGED <<coordinatorVars, timeouts, countdownIntervals, badge, badgeTimers, loads,
                 updates, clearing, storage, script, call, reply, runtimeId, pageVars,
                 clearerVars, popup>>

\* The clipboard operations interceptClipboardAPI wraps, and what the original
\* does when the page calls it: it returns a value, throws, or returns a
\* promise that resolves or rejects.
Outcome(kind, value) == [kind |-> kind, value |-> value]
NotAllowedError == <<"NotAllowedError">>
IllegalInvocation == <<"Illegal", "invocation">>
Originals(op) ==
  IF op \in {"writeText", "write"}
    THEN {Outcome("resolves", <<>>), Outcome("rejects", NotAllowedError),
          Outcome("throws", IllegalInvocation)}
  ELSE IF op = "readText"
    THEN {Outcome("resolves", <<"a">>), Outcome("resolves", <<" ">>),
          Outcome("rejects", NotAllowedError), Outcome("throws", IllegalInvocation)}
  ELSE {Outcome("returns", <<"true">>), Outcome("returns", <<"false">>),
        Outcome("throws", IllegalInvocation)}
WrappedOperations == {"writeText", "write", "readText", "execCommand copy", "execCommand paste"}

NoCall == [op |-> "none", original |-> Outcome("none", <<>>), observed |-> Outcome("none", <<>>)]

\* What the wrapper of `op` tells the script, if anything.  content.js reports a
\* readText when its promise has resolved with text that is not blank, and no
\* execCommand('paste'); part_000 reports both before it calls the original.
Notification(s, op, original) ==
  IF op \in {"writeText", "write", "execCommand copy"} THEN "copy"
  ELSE IF s = "part_000" THEN "paste"
  ELSE IF op = "readText" /\ original.kind = "resolves" /\ NonBlank(original.value)
    THEN "paste"
  ELSE "none"

\* What the page gets from the wrapper: the original's return value or
\* exception, unless the notification before it threw; in content.js the
\* readText promise goes through a .then that notifies and returns the text.
Wrapped(s, op, original) ==
  LET thrown == IF extensionContextValid THEN Escapes ELSE <<>> IN
  IF Notification(s, op, original) = "none" \/ thrown = <<>> THEN original
  ELSE IF s = "content.js" /\ op = "readText" THEN Outcome("rejects", thrown)
  ELSE Outcome("throws", thrown)

\* The page calls a clipboard operation the script has wrapped.
PageCalls ==
  /\ listeners > 0
  /\ Len(outbox) < MaxInFlight
  /\ script \in {"content.js", "part_000"}
  /\ \E op \in WrappedOperations :
       \E original \in Originals(op) :
         /\ call' = [op |-> op, original |-> original,
                     observed |-> Wrapped(script, op, original)]
         /\ CASE Notification(script, op, original) = "copy" -> notifyCopyEvent
              [] Notification(script, op, original) = "paste" ->
                   notifyPasteEvent(Undef, original.value, TextArea)
              [] OTHER -> UNCHANGED <<outbox, extensionContextValid>>
  /\ UNCHANGED <<coordinatorVars, timeouts, countdownIntervals, badge, badgeTimers, loads,
                 updates, clearing, storage, script, reply, runtimeId, pageVars, clearerVars,
                 popup>>

\* chrome.runtime.onMessage of the worker gets the script's message.
MessageDelivered ==
  /\ outbox # <<>>
  /\ OnMessage(Head(outbox))
  /\ outbox' = Tail(outbox)
  /\ UNCHANGED <<script, call, reply, extensionContextValid, runtimeId, pageVars, clearerVars,
                 popup>>

\* The extension is reloaded or removed under the page: chrome.runtime.id is gone.
ContextInvalidated ==
  /\ runtimeId
  /\ runtimeId' = FALSE
  /\ UNCHANGED <<coordinatorVars, timeouts, countdownIntervals, badge, badgeTimers, loads,
                 updates, clearing, storage, outbox, script, call, reply, extensionContextValid,
                 pageVars, clearerVars, popup>>

\* chrome.runtime.sendMessage starts or stops failing.
TransportChanges ==
  /\ transport' \in Transports \ {transport}
  /\ UNCHANGED <<coordinatorVars, timeouts, countdownIntervals, badge, badgeTimers, loads,
                 updates, clearing, storage, outbox, script, call, reply, extensionContextValid,
                 runtimeId, runs, clipboardSecurityInjected, listenersSetup, listeners,
                 readyState, domListeners, contextMenu, clearerVars, popup>>

\* ------------------------------------------------- the content script's set-up
MaxRuns == 2   \* times the script file is run in one page

\* The state of the script in the page.
Detector ==
  [injected |-> clipboardSecurityInjected, listenersSetup |-> listenersSetup,
   listeners |-> listeners, domListeners |-> domListeners, valid |-> extensionContextValid]

\* testExtensionContext: the flag is set when chrome.runtime.id is there.
testExtensionContext(d) == IF runtimeId THEN [d EXCEPT !.valid = TRUE] ELSE d

\* A setupListeners without its listenersSetup guard: the fault C16 has to catch.
setupListenersUnguarded(d) ==
  testExtensionContext([d EXCEPT !.listenersSetup = TRUE, !.listeners = @ + 1])

\* setupListeners: if (listenersSetup) return; then the listeners, the
\* clipboard wrappers and testExtensionContext.
setupListeners(d) ==
  IF d.listenersSetup
    THEN d
    ELSE testExtensionContext([d EXCEPT !.listenersSetup = TRUE, !.listeners = @ + 1])

\* A script body without the injection guard: the fault C15 has to catch.
RunsBodyAlways(injected) == TRUE

\* if (window.clipboardSecurityInjected) return;
RunsBody(injected) == ~injected

\* One script body: the guard, the body's own listenersSetup = false and
\* extensionContextValid = true, setupListeners at DOMContentLoaded or at once,
\* "also setup immediately", and the periodic check.
Body(d) ==
  IF RunsBody(d.injected)
    THEN LET own == [d EXCEPT !.injected = TRUE, !.listenersSetup = FALSE, !.valid = TRUE]
             first == IF readyState = "loading"
                        THEN [own EXCEPT !.domListeners = @ + 1]
                        ELSE setupListeners(own)
         IN setupListeners(first)
    ELSE d

\* The script file: content.js holds two bodies, part_000 and part_002 one.
ScriptFile(d) == IF script = "content.js" THEN Body(Body(d)) ELSE Body(d)

\* The page takes the state d of the script.
Installs(d) ==
  /\ clipboardSecurityInjected' = d.injected
  /\ listenersSetup' = d.listenersSetup
  /\ listeners' = d.listeners
  /\ domListeners' = d.domListeners
  /\ UNCHANGED contextMenu
  /\ extensionContextValid' = d.valid

\* The browser runs the script file in the page: at document load, and again
\* when the extension injects it once more.
ScriptRuns ==
  /\ runs < MaxRuns
  /\ runs' = runs + 1
  /\ Installs(ScriptFile(Detector))
  /\ UNCHANGED <<coordinatorVars, timeouts, countdownIntervals, badge, badgeTimers, loads,
                 updates, clearing, storage, outbox, script, call, reply, runtimeId, transport,
                 readyState, clearerVars, popup>>

\* setupListeners called once for each DOMContentLoaded listener.
RECURSIVE Repeated(_, _)
Repeated(d, n) == IF n = 0 THEN d ELSE Repeated(setupListeners(d), n - 1)

\* DOMContentLoaded
DOMContentLoaded ==
  /\ readyState = "loading"
  /\ readyState' = "complete"
  /\ Installs([Repeated(Detector, domListeners) EXCEPT !.domListeners = 0])
  /\ UNCHANGED <<coordinatorVars, timeouts, countdownIntervals, badge, badgeTimers, loads,
                 updates, clearing, storage, outbox, script, call, reply, runtimeId, transport,
                 runs, clearerVars, popup>>

\* The callback of setInterval(..., 30000): a live script without
\* chrome.runtime.id marks itself dead.
PeriodicCheck ==
  /\ listeners > 0
  /\ extensionContextValid' = (extensionContextValid /\ runtimeId)
  /\ UNCHANGED <<coordinatorVars, timeouts, countdownIntervals, badge, badgeTimers, loads,
                 updates, clearing, storage, outbox, script, call, reply, runtimeId, pageVars,
                 clearerVars, popup>>

\* The messages the content scripts of the open pages send.
ScriptMessages ==
  {PasteMessage(IsPasswordSent(s, el), <<"a">>, el) : s \in Scripts, el \in Elements}
    \cup {CopyMessage}

\* A message of some page's content script arrives at the router.
MessageArrives ==
  /\ \E message \in ScriptMessages : OnMessage(message)
  /\ UNCHANGED <<detectorVars, clearerVars, popup>>

\* A message without a type, which no case of the switch matches.
UntypedMessage == [type |-> Undef, isPassword |-> Undef, text |-> <<>>, field |-> Undef]

\* The message that is followed to its answer arrives at the router: the
\* listener runs its case and calls sendResponse before it returns.
MessageAnswered ==
  /\ \E message \in ScriptMessages \cup {UntypedMessage} :
       /\ OnMessage(message)
       /\ reply' = RouterResponse(message)
  /\ UNCHANGED <<outbox, script, call, extensionContextValid, runtimeId, pageVars, clearerVars,
                 popup>>

\* The sender that is followed asks for a clear.
ClearNowAnswered ==
  /\ ClearNowCase
  /\ reply' = ClearNowResponse
  /\ UNCHANGED <<outbox, script, call, extensionContextValid, runtimeId, pageVars>>

\* ------------------------------------- the worker that tracks copies (part_001)
\* The badge signs of part_001, by their names: the clipboard sign it shows
\* after a copy (U+1F4CB) and the check mark it shows after a clear (U+2713).
CopySign == "CLIPBOARD"
CheckSign == "CHECK MARK"

\* handleCopyEvent of part_001: if (clearTimer) { clearTimeout(clearTimer);
\* clearTimer = null; }, then the clipboard sign on the badge.
handleCopyEvent ==
  /\ timeouts' = IF clearTimer # Null THEN clearTimeout(timeouts, clearTimer) ELSE timeouts
  /\ clearTimer' = Null
  /\ badge' = CopySign
  /\ UNCHANGED countdownIntervals

\* if (message.type === 'COPY_DETECTED') { if (settings.enabled) handleCopyEvent(); ...
OnCopyDetected(message) ==
  IF settings.enabled
    THEN handleCopyEvent
    ELSE UNCHANGED <<clearTimer, timeouts, countdownIntervals, badge>>

\* The router of part_001, for the messages a content script sends: its
\* PASTE_DETECTED branch and its handlePasteEvent are those of background.js.
OnMessageCopyTracking(message) ==
  /\ IF message.type = "PASTE_DETECTED" THEN OnPasteDetected(message)
     ELSE IF message.type = "COPY_DETECTED" THEN OnCopyDetected(message)
     ELSE OnUnknownMessage(message)
  /\ UNCHANGED <<settings, settingsInitialized, settingsInitPromise, badgeTimers, loads,
                 updates, clearing, storage>>

\* A message of some page's content script arrives at the router of part_001.
MessageArrivesCopyTracking ==
  /\ \E message \in ScriptMessages : OnMessageCopyTracking(message)
  /\ UNCHANGED <<detectorVars, clearerVars, popup>>

\* A clearClipboard call of part_001 returns: showClearedBadge with the check
\* mark and its 2 s timer when a context ran the clear, nothing when none did.
ClearClipboardDoneCopyTracking ==
  /\ clearing > 0
  /\ clearing' = clearing - 1
  /\ \E cleared \in BOOLEAN :
       IF cleared
         THEN badge' = CheckSign /\ badgeTimers' = badgeTimers \cup {BadgeHoldSeconds}
         ELSE UNCHANGED <<badge, badgeTimers>>
  /\ UNCHANGED <<coordinatorVars, timeouts, countdownIntervals, loads, updates, storage,
                 detectorVars, clearerVars, popup>>

\* The page after the content script ran in it once, the extension reachable.
PageLoaded ==
  /\ transport = Up
  /\ runs = 1
  /\ clipboardSecurityInjected = TRUE
  /\ listenersSetup = TRUE
  /\ listeners = 1
  /\ readyState = "complete"
  /\ domListeners = 0
  /\ contextMenu = NoMenu
  /\ extensionContextValid = TRUE

\* ------------------------------------------------------------ specifications
\* A fresh install: the worker's top level has run, nothing is stored.
FreshWorker ==
  /\ clearTimer = Null
  /\ settings = DefaultSettings
  /\ settingsInitialized = FALSE
  /\ settingsInitPromise = FALSE
  /\ timeouts = {}
  /\ countdownIntervals = {}
  /\ badge = ""
  /\ badgeTimers = {}
  /\ loads = <<>>
  /\ updates = <<>>
  /\ clearing = 0
  /\ storage = EmptyStorage
  /\ outbox = <<>>
  /\ reply = NoReply
  /\ call = NoCall
  /\ runtimeId = TRUE
  /\ chain = IdleChain
  /\ popup = PopupShowing(settings)

\* One ordinary page is open, and the browser has chrome.offscreen.
OneWebTab ==
  /\ tabs = <<"web">>
  /\ offscreenApi = TRUE
  /\ clipboard = Secret
  /\ clipboardApi = WorkingApi
  /\ auxiliary = {}

Fresh == FreshWorker /\ PageLoaded /\ OneWebTab

\* The worker after the user saved the interval n and the worker loaded it.
ConfiguredWorker(n) ==
  /\ clearTimer = Null
  /\ settings = SettingsFromStorage([EmptyStorage EXCEPT !.clipboardInterval = n])
  /\ settingsInitialized = TRUE
  /\ settingsInitPromise = FALSE
  /\ timeouts = {}
  /\ countdownIntervals = {}
  /\ badge = ""
  /\ badgeTimers = {}
  /\ loads = <<>>
  /\ updates = <<>>
  /\ clearing = 0
  /\ storage = [EmptyStorage EXCEPT !.clipboardInterval = n]
  /\ outbox = <<>>
  /\ reply = NoReply
  /\ call = NoCall
  /\ runtimeId = TRUE
  /\ chain = IdleChain
  /\ popup = PopupShowing(settings)

Configured(n) == ConfiguredWorker(n) /\ PageLoaded /\ OneWebTab

\* The countdown with time passing: pastes, the on/off switch and "clear now".
Init == script = "content.js" /\ \E n \in Intervals : Configured(n)

Next ==
  \/ MessageArrives
  \/ PopupTogglesSaved
  \/ OnClearClipboardNow
  \/ ClearClipboardDone
  \/ ClearTimerFires
  \/ CountdownTick
  \/ BadgeTimerFires
  \/ Tick

Spec == Init /\ [][Next]_vars

\* The countdown with time passing: pastes and the user saving a new delay.
NextUpdate ==
  \/ MessageArrives
  \/ PopupSavesInterval
  \/ UpdateSettingsDone
  \/ ClearClipboardDone
  \/ ClearTimerFires
  \/ CountdownTick
  \/ BadgeTimerFires
  \/ Tick

SpecUpdate == Init /\ [][NextUpdate]_vars

\* A user who pastes again only when the countdown of the last paste is over.
PasteAfterCountdown ==
  /\ timeouts = {}
  /\ countdownIntervals = {}
  /\ MessageArrives

\* One countdown at a time with time passing, and the requests that meet it:
\* the on/off switch, and a new delay whose write chrome.storage.sync takes.
NextSettle ==
  \/ PasteAfterCountdown
  \/ PopupTogglesSaved
  \/ PopupSavesIntervalSaved
  \/ UpdateSettingsAnswered
  \/ ClearClipboardDone
  \/ ClearTimerFires
  \/ CountdownTick
  \/ BadgeTimerFires
  \/ Tick

SpecSettle == Init /\ [][NextSettle]_vars

\* The settings across teardowns of the worker, from a fresh install.
InitCold == script = "content.js" /\ Fresh

NextCold ==
  \/ OnStartupOrInstalled
  \/ LoadSettingsDone
  \/ OnGetSettings
  \/ MessageArrives
  \/ PopupTogglesSaved
  \/ PopupSavesIntervalSaved
  \/ UpdateSettingsDone
  \/ PopupSetsPasswordOnlySaved
  \/ Teardown

SpecCold == InitCold /\ [][NextCold]_vars

\* A page with one of the content scripts, and the worker behind it.
InitPage == script \in Scripts /\ Fresh

NextPage ==
  \/ UserPastes
  \/ UserCopies
  \/ MessageDelivered
  \/ ContextInvalidated
  \/ PopupTogglesSaved
  \/ PopupSetsPasswordOnlySaved

SpecPage == InitPage /\ [][NextPage]_vars

\* A clear followed through the fallback chain, for every set of open tabs,
\* with or without chrome.offscreen, in pages where the clear primitive works
\* or nothing of it does.
InitClear ==
  /\ script = "content.js"
  /\ ConfiguredWorker(DefaultInterval)
  /\ PageLoaded
  /\ tabs \in TabLists
  /\ offscreenApi \in BOOLEAN
  /\ clipboard = Secret
  /\ clipboardApi \in {WorkingApi, NoApi}
  /\ auxiliary = {}

NextClear ==
  \/ OnClearClipboardNow
  \/ ClearerTriesActiveTab
  \/ ClearerTriesOtherTab
  \/ ClearerAsksContentScript
  \/ ContentScriptAnswers
  \/ ClearerEnsuresOffscreen
  \/ ClearerPings
  \/ OffscreenPingAnswered
  \/ ClearerSendsOffscreenClear
  \/ OffscreenClearAnswered
  \/ OffscreenTimeout
  \/ ClearerOpensEphemeralTab
  \/ ClearerOpensEphemeralWindow
  \/ ClearerRemovesEphemeral
  \/ ClearerEnds
  \/ BadgeTimerFires
  \/ Tick

SpecClear == InitClear /\ [][NextClear]_vars

\* The same, with the popup whose "Clear Now" button asks for the clear.
NextClearNow ==
  \/ NextClear
  \/ UserClicksClearNow
  \/ PopupTimeout

SpecClearNow == InitClear /\ [][NextClearNow]_vars

\* A clear followed through the fallback chain with one ordinary page open, for
\* each content script and for everything the clear primitive can meet.
InitPrimitive ==
  /\ script \in Scripts
  /\ ConfiguredWorker(DefaultInterval)
  /\ PageLoaded
  /\ tabs = <<"web">>
  /\ offscreenApi \in BOOLEAN
  /\ clipboard = Secret
  /\ clipboardApi \in ClipboardApis
  /\ auxiliary = {}

SpecPrimitive == InitPrimitive /\ [][NextClear]_vars

\* The same clear with the popup's on/off switch beside it: TOGGLE_EXTENSION is
\* handled between the awaits of clearClipboard.
NextClearToggled ==
  \/ NextClear
  \/ PopupTogglesSaved

SpecClearToggled == InitPrimitive /\ [][NextClearToggled]_vars

\* The router and the sender of one message at a time, within one second: the
\* messages of content scripts, "clear now", and the switches of the popup.
NextRouter ==
  \/ MessageAnswered
  \/ ClearNowAnswered
  \/ PopupTogglesSaved
  \/ PopupSetsPasswordOnlySaved
  \/ ClearClipboardDone

SpecRouter == Init /\ [][NextRouter]_vars

\* A page with one of the content scripts whose user opens context menus,
\* pastes and copies, and the worker behind it.
NextMenu ==
  \/ UserOpensContextMenu
  \/ ContextMenuTimerFires
  \/ UserPastesEvent
  \/ UserCopiesEvent
  \/ MessageDelivered
  \/ ContextInvalidated

SpecMenu == InitPage /\ [][NextMenu]_vars

\* A page with a content script that classifies the paste target: pastes into
\* every kind of field, and the worker behind it.
InitClassify == script \in ClassifyingScripts /\ Fresh

NextClassify ==
  \/ UserPastesIntoField
  \/ MessageDelivered

SpecClassify == InitClassify /\ [][NextClassify]_vars

\* A page from before the content script runs in it, with the script's set-up,
\* its liveness flag and the failures of its sends.
PageNew ==
  /\ transport = Up
  /\ runs = 0
  /\ clipboardSecurityInjected = FALSE
  /\ listenersSetup = FALSE
  /\ listeners = 0
  /\ readyState \in {"loading", "complete"}
  /\ domListeners = 0
  /\ contextMenu = NoMenu
  /\ extensionContextValid = TRUE

InitDetector == script \in Scripts /\ FreshWorker /\ PageNew /\ OneWebTab

NextDetector ==
  \/ ScriptRuns
  \/ DOMContentLoaded
  \/ PeriodicCheck
  \/ UserPastesWord
  \/ UserCopies
  \/ MessageDelivered
  \/ ContextInvalidated
  \/ TransportChanges

SpecDetector == InitDetector /\ [][NextDetector]_vars

\* A page whose clipboard calls go through the wrappers, with the sends failing
\* in every way and the extension going away under the page.
InitWrappers == script \in {"content.js", "part_000"} /\ Fresh

NextWrappers ==
  \/ PageCalls
  \/ MessageDelivered
  \/ ContextInvalidated
  \/ TransportChanges
  \/ PeriodicCheck

SpecWrappers == InitWrappers /\ [][NextWrappers]_vars

\* The popup and the worker behind it, from a fresh install: the five requests,
\* their answers, transport errors and the popup's timer.
NextPopup ==
  \/ PopupOpens
  \/ UserFlipsSwitch
  \/ UserEditsInterval
  \/ UserFlipsPasswordOnly
  \/ UserClicksClearNow
  \/ PopupRequestArrives
  \/ LoadSettingsDone
  \/ UpdateSettingsDone
  \/ ClearClipboardDone
  \/ PopupTransportError
  \/ PopupTimeout
  \/ BadgeTimerFires
  \/ Tick

SpecPopup == InitCold /\ [][NextPopup]_vars

\* The delay from the popup's control, or from another sender's message, to the
\* worker, to storage and back into a recreated worker.
NextInterval ==
  \/ UserTypesInterval
  \/ PopupRequestArrives
  \/ UpdateSettingsArrives
  \/ UpdateSettingsDone
  \/ PopupTransportError
  \/ OnStartupOrInstalled
  \/ LoadSettingsDone
  \/ Teardown

SpecInterval == InitCold /\ [][NextInterval]_vars

\* The popup saving settings while chrome.storage.sync takes or rejects the
\* writes; within one second.
NextSave ==
  \/ UserFlipsSwitch
  \/ UserEditsInterval
  \/ UserFlipsPasswordOnly
  \/ PopupSaveArrives
  \/ UpdateSettingsDone

SpecSave == InitCold /\ [][NextSave]_vars

\* The countdown with time passing in the worker of part_001, which handles
\* COPY_DETECTED: pastes and copies.
NextCopyTracking ==
  \/ MessageArrivesCopyTracking
  \/ ClearClipboardDoneCopyTracking
  \/ ClearTimerFires
  \/ CountdownTick
  \/ BadgeTimerFires
  \/ Tick

SpecCopyTracking == Init /\ [][NextCopyTracking]_vars

\* The browser runs the callbacks of timers whose time has come, lets time
\* pass, and a clear that was issued comes to its end.
TimersRun ==
  \/ ClearTimerFires
  \/ CountdownTick
  \/ BadgeTimerFires
  \/ Tick
  \/ ClearClipboardDone

\* Spec, with the browser running the timers: a timer that is set is not held
\* back for ever.
SpecLive == Init /\ [][Next]_vars /\ WF_vars(TimersRun)

\* -------------------------------------------------------------------- claims
\* Steps the claims speak about.
\* The router handles a PASTE_DETECTED that qualifies.
QualifyingPaste ==
  /\ \E message \in ScriptMessages :
       /\ message.type = "PASTE_DETECTED"
       /\ Qualifies(message)
       /\ OnMessage(message)
  /\ UNCHANGED detectorVars

\* A countdown starts in this step: a new clear timer over the full delay is
\* the one clearTimer names, and a new badge updater runs.
CountdownStarts ==
  /\ countdownIntervals' # countdownIntervals
  /\ \E t \in timeouts' \ timeouts : t.h = clearTimer' /\ t.left = settings.interval

\* C1: debounce-restart.  At most one clear timer is pending at any time; a
\* qualifying paste leaves exactly one, due settings.interval seconds after the
\* paste, whatever was pending before; and a pending timer's deadline moves in
\* no other way: from one state to the next a timer is untouched, one second
\* closer because a second passed, or set by a qualifying paste.
C1_DebounceRestart ==
  [][/\ Cardinality(timeouts') <= 1
     /\ QualifyingPaste =>
          timeouts' = {[h |-> clearTimer', left |-> settings.interval, cd |-> clearTimer']}
     /\ \A t \in timeouts' :
          \/ t \in timeouts
          \/ QualifyingPaste
          \/ Tick /\ [t EXCEPT !.left = @ + 1] \in timeouts]_vars

\* C1's case: a paste restarted the countdown while the previous countdown was
\* under way (its badge updater has counted below the full delay), and the
\* pending timer is due a full delay after the later paste.
C1_Witness ==
  \E t \in timeouts, c \in countdownIntervals :
    /\ t.h = clearTimer
    /\ c.id # t.h
    /\ t.left = settings.interval
    /\ c.timeLeft < settings.interval

\* C2: every pending clear timer is the one clearTimer names (a cancelled
\* countdown's timer is gone, so it issues no clear); the callback of a timer
\* that reached its deadline issues exactly one clearClipboard and the timer is
\* gone after it; a clearClipboard is issued only by a timer at its deadline or
\* by "clear now"; and a paste that resets the countdown issues none.
C2_OneClearPerExpiry ==
  [][/\ \A t \in timeouts' : t.h = clearTimer'
     /\ ClearTimerFires => clearing' = clearing + 1 /\ timeouts' = {}
     /\ clearing' > clearing =>
          /\ clearing' = clearing + 1
          /\ \/ OnClearClipboardNow
             \/ \E t \in Due(timeouts) : t.h = clearTimer /\ t \notin timeouts'
     /\ QualifyingPaste => clearing' = clearing]_vars

\* C2's case: a countdown ran to its deadline and its timer issued the clear:
\* the badge still shows the last second of the countdown, the clear is under
\* way, nothing is pending.
C2_Witness ==
  /\ clearing = 1
  /\ clearTimer = Null
  /\ timeouts = {}
  /\ countdownIntervals = {}
  /\ badge = "1"

\* C3: a PASTE_DETECTED or COPY_DETECTED message handled while settings.enabled
\* is false starts no countdown, schedules no timer and issues no clear.
C3_NoActionWhileDisabled ==
  [][(~settings.enabled /\ MessageDelivered) =>
       UNCHANGED <<clearTimer, timeouts, countdownIntervals, badgeTimers, clearing>>]_vars

\* C3's case: the extension is off and a page's PASTE_DETECTED is at the router.
C3_Witness ==
  /\ ~settings.enabled
  /\ outbox # <<>>
  /\ Head(outbox).type = "PASTE_DETECTED"
  /\ clearTimer = Null
  /\ timeouts = {}

\* C4: a PASTE_DETECTED that is the first message a recreated worker handles
\* (nothing loaded the settings, no load is under way) starts no countdown when
\* the persisted record has extensionEnabled = false.
C4_ColdStartUsesStorage ==
  [][(/\ ~settingsInitialized
      /\ loads = <<>>
      /\ storage.extensionEnabled = "false"
      /\ MessageArrives) =>
       UNCHANGED <<clearTimer, timeouts, countdownIntervals>>]_vars

\* C5: TOGGLE_EXTENSION(enabled = false) handled while a countdown is pending
\* leaves the Coordinator disabled with no clear timer pending and clearTimer
\* null, and issues no clear; and while disabled no clear timer is pending, so
\* none fires at the former deadline.
C5_DisableCancels ==
  [][/\ (clearTimer # Null /\ OnToggleExtension(FALSE, TRUE)) =>
          /\ ~settings'.enabled
          /\ timeouts' = {}
          /\ clearTimer' = Null
          /\ clearing' = clearing
     /\ ~settings'.enabled => timeouts' = {}]_vars

\* C5's case: the extension was switched off during a countdown: the badge
\* updater of that countdown is still counting, no timer is pending, no clear
\* is under way.
C5_Witness ==
  /\ ~settings.enabled
  /\ clearTimer = Null
  /\ timeouts = {}
  /\ clearing = 0
  /\ \E c \in countdownIntervals : c.timeLeft > 1

\* C6: with enabled and clearOnlyOnPasswordPaste both true, a non-blank paste
\* that src/content.js reports starts a countdown if it went into a password
\* field, and changes nothing if it went into another field.
C6_PasswordOnlyEndToEnd ==
  [][(/\ script = "content.js"
      /\ settings.enabled
      /\ settings.clearOnlyOnPasswordPaste
      /\ outbox # <<>>
      /\ Head(outbox).type = "PASTE_DETECTED"
      /\ NonBlank(Head(outbox).text)
      /\ MessageDelivered) =>
       IF isPasswordField(Head(outbox).field)
         THEN CountdownStarts
         ELSE UNCHANGED <<clearTimer, timeouts, countdownIntervals>>]_vars

\* C7: no PASTE_DETECTED message is sent for a paste whose text is empty or
\* blank, whichever script and path observes it.
C7_NoBlankDetection ==
  \A i \in 1..Len(outbox) :
    outbox[i].type = "PASTE_DETECTED" => NonBlank(outbox[i].text)

\* C8: when updateSettings finishes while a countdown is pending, the one
\* pending clear timer is due the full new delay (settings.interval, which the
\* update set) from now.
C8_UpdateRestarts ==
  [][(clearTimer # Null /\ UpdateSettingsDone) =>
       /\ Cardinality(timeouts') = 1
       /\ \A t \in timeouts' : t.h = clearTimer' /\ t.left = settings.interval]_vars

\* C9: at most one per-second badge updater is live.
C9_OneBadgeUpdater == Cardinality(countdownIntervals) <= 1

\* C10: CLEAR_CLIPBOARD_NOW handled while enabled with a countdown pending
\* cancels the timer (none is pending after, so none fires at the former
\* deadline), issues one clearClipboard and leaves clearTimer null.
C10_ClearNowShortCircuits ==
  [][(settings.enabled /\ clearTimer # Null /\ OnClearClipboardNow) =>
       /\ timeouts' = {}
       /\ clearTimer' = Null
       /\ clearing' = clearing + 1]_vars

\* C10's case: "clear now" cut a countdown short: the clear is under way, no
\* timer is pending, and the countdown's badge updater still has seconds to count.
C10_Witness ==
  /\ settings.enabled
  /\ clearing = 1
  /\ clearTimer = Null
  /\ timeouts = {}
  /\ \E c \in countdownIntervals : c.timeLeft > 1

C12_FallbackOrder ==
  [][(chain'.tried # chain.tried /\ chain'.pc # "idle") =>
       /\ ~chain.cleared
       /\ \E k \in 1..5 :
            /\ chain'.tried = Append(chain.tried, k)
            /\ \A j \in 1..Len(chain.tried) : chain.tried[j] < k]_vars

\* The offscreen document cleared after the tabs and the content scripts failed.
C12_Witness ==
  /\ chain.pc = "done"
  /\ chain.cleared
  /\ chain.tried = <<1, 2, 3, 4>>

\* Tabs are open and every one of them shows a privileged page.
AllPrivileged == tabs # <<>> /\ \A j \in 1..Len(tabs) : tabs[j] # "web"

\* C13: when every open tab is a privileged page and there is no
\* chrome.offscreen, the clear ends in failure: the call returns without the
\* "OK" badge, and a CLEAR_CLIPBOARD_NOW that asked for it is not answered with
\* success.
C13_PrivilegedOnlyFails ==
  [][(AllPrivileged /\ ~offscreenApi /\ chain.pc = "done" /\ chain'.pc = "idle") =>
       /\ badge' = badge
       /\ badgeTimers' = badgeTimers
       /\ (PopupHeld("CLEAR_CLIPBOARD_NOW") => popup'.success # "true")]_vars

\* C14: the response the popup gets to CLEAR_CLIPBOARD_NOW tells whether a
\* context of the chain cleared: success is true when one did and false when
\* every one failed.
C14_ClearNowReportsOutcome ==
  [][(PopupHeld("CLEAR_CLIPBOARD_NOW") /\ chain.pc = "done" /\ popup'.phase = "idle"
        /\ popup'.outcome = "response") =>
       popup'.success = BoolText(chain.cleared)]_vars

\* The Clearer awaits the answer of another context.
AwaitsPeer == chain.pc \in {"awaitScript", "awaitPing", "awaitClear"}

\* C19: every round trip of the Clearer has a bounded wait: while clearClipboard
\* awaits the answer to CLEAR_CLIPBOARD_REQUEST, to an OFFSCREEN_PING or to
\* OFFSCREEN_CLEAR_CLIPBOARD, a timer runs that ends the wait.
C19_BoundedWaits == AwaitsPeer => chain.timed

\* C15: setting the content script up again changes nothing: once the script
\* has run in the page, no step (a further run of the file, the second body of
\* content.js, DOMContentLoaded calling setupListeners again) adds a set of
\* listeners, wrappers and timers, and one paste or copy adds at most one event.
C15_InitIdempotent ==
  [][/\ runs >= 1 => listeners' = listeners
     /\ Len(outbox') <= Len(outbox) + 1]_vars

\* The file was run twice in the page, and a paste was reported once.
C15_Witness ==
  /\ runs >= 2
  /\ listeners = 1
  /\ Len(outbox) = 1

\* C16: once extensionContextValid is false it stays false, and the script sends
\* no message any more.
C16_LivenessMonotone ==
  [][~extensionContextValid =>
       (~extensionContextValid' /\ Len(outbox') <= Len(outbox))]_vars

\* The flag is false although chrome.runtime.id is there and sends would work
\* again, after the file was run once more.
C16_Witness ==
  /\ ~extensionContextValid
  /\ runtimeId
  /\ transport = Up
  /\ runs >= 2
  /\ readyState = "complete"

\* The send fails because the other end is gone.
EndpointGone ==
  \/ ~runtimeId
  \/ /\ transport.kind = "lastError"
     /\ transport.message \in {ContextInvalidatedError, NoReceiverError, PortClosedError}
  \/ transport.kind = "throws" /\ transport.message = ContextInvalidatedError

\* The send fails with another error, the other end being there.
TransientFailure ==
  /\ runtimeId
  /\ \/ transport.kind = "lastError" /\ transport.message = TooLongError
     \/ transport.kind = "throws" /\ transport.message = QuotaError

\* A live script calls sendMessageSafely for a paste or a copy.
ScriptSends ==
  /\ extensionContextValid
  /\ \/ UserCopies
     \/ \E path \in Paths :
          NotifiesPaste(script, path, <<"a">>) /\ Paste(<<"a">>, TextArea, path)

C18_GetSettingsAnswered ==
  [][(PopupHeld("GET_SETTINGS") /\ popup'.phase = "idle" /\ popup'.outcome # "error") =>
       popup'.outcome = "response"]_vars

\* What the popup shows after a request that did not come back with a response.
PopupFellBack ==
  LET type == popup.request.type
      asked == popup.request.arg = "true"
  IN
  /\ popup'.status = "error"
  /\ type = "GET_SETTINGS" =>
       /\ popup'.enableToggle
       /\ popup'.intervalInput = DefaultInterval
       /\ ~popup'.clearNowDisabled
  /\ type = "TOGGLE_EXTENSION" => popup'.enableToggle = ~asked
  /\ type = "UPDATE_PASSWORD_ONLY" => popup'.passwordOnlyToggle = ~asked
  /\ type = "CLEAR_CLIPBOARD_NOW" => ~popup'.clearNowDisabled

\* C20: while the popup awaits the answer to one of its five requests its timer
\* runs with at most 5 s left; the request settles as a response, a transport
\* error or the timeout, and after an error or the timeout the popup is on its
\* fallback path: error status, and the defaults shown, the switch put back or
\* the button enabled again.
C20_PopupSettles ==
  [][/\ popup'.phase # "idle" => popup'.left \in 0..5
     /\ (popup.phase # "idle" /\ popup'.phase = "idle") =>
          /\ popup'.outcome \in {"response", "error", "timeout"}
          /\ popup'.outcome # "response" => PopupFellBack]_vars

\* A TOGGLE_EXTENSION ran into the timeout and the switch is back where it was.
C20_Witness ==
  /\ popup.phase = "idle"
  /\ popup.outcome = "timeout"
  /\ popup.status = "error"
  /\ popup.enableToggle
  /\ ~settings.enabled

Stored(type) ==
  IF type = "TOGGLE_EXTENSION" THEN storage'.extensionEnabled
  ELSE IF type = "UPDATE_SETTINGS" THEN NumberText(storage'.clipboardInterval)
  ELSE storage'.clearOnlyOnPasswordPaste

\* C22: a request that saves a setting (TOGGLE_EXTENSION, UPDATE_SETTINGS,
\* UPDATE_PASSWORD_ONLY) is answered with success = true only when storage
\* holds the value; when the write failed the answer is success = false.
C22_SaveFailureReported ==
  [][(/\ popup.phase # "idle"
      /\ popup.request.type \in {"TOGGLE_EXTENSION", "UPDATE_SETTINGS", "UPDATE_PASSWORD_ONLY"}
      /\ popup'.phase = "idle"
      /\ popup'.outcome = "response"
      /\ Stored(popup.request.type) # popup.request.arg) =>
       popup'.success = "false"]_vars

\* Every timer callback whose time has come has run.
CallbacksRan ==
  /\ Due(timeouts) = {}
  /\ Due(countdownIntervals) = {}
  /\ 0 \notin badgeTimers

\* C23: while a countdown is pending the badge shows the whole seconds left to
\* its deadline: once the callbacks of a second have run, the badge text is the
\* number of seconds the pending clear timer has left, also after a restart
\* by a later paste, after an update of the delay and after the 2 s timer of
\* an 'OFF' or 'OK' badge has run.
C23_BadgeShowsRemaining ==
  \A t \in timeouts :
    (t.h = clearTimer /\ CallbacksRan) => badge = NumberText(t.left)

\* The badge texts that are a number of seconds.
SecondsTexts == {NumberText(n) : n \in MinInterval..MaxDelay}

\* C24: the TOGGLE_EXTENSION that disables shows 'OFF' and sets the 2 s timer
\* that blanks it; and while the extension is disabled the badge never shows
\* a number of seconds: no updater of a cancelled countdown writes to it.
C24_DisabledBadge ==
  [][/\ OnToggleExtension(FALSE, TRUE) =>
          (badge' = "OFF" /\ BadgeHoldSeconds \in badgeTimers')
     /\ ~settings'.enabled => badge' \notin SecondsTexts]_vars

\* A context that ran the clear primitive has just been taken to have cleared:
\* executeScript resolved in a tab (steps 1 and 2), a content script answered
\* success (step 3) or the offscreen document did (step 4).
ContextReportsCleared ==
  /\ ~chain.cleared
  /\ chain'.cleared
  /\ chain'.tried[Len(chain'.tried)] \in 1..4

\* C25: the 'OK' badge and a success answer come only after a clear that
\* happened: when showClearedBadge is called at the end of clearClipboard, and
\* when a content script has answered CLEAR_CLIPBOARD_REQUEST with success, the
\* clipboard no longer holds what the user copied.
C25_OkOnlyAfterClear ==
  [][/\ (chain.pc = "done" /\ chain'.pc = "idle" /\ badge' = "OK") => clipboard' # Secret
     /\ (chain.pc = "awaitScript" /\ chain'.cleared) => clipboard' # Secret]_vars

\* A worker of the repository handles a COPY_DETECTED message: the router of
\* background.js or the router of part_001.
CopyHandled ==
  /\ OnMessage(CopyMessage) \/ OnMessageCopyTracking(CopyMessage)
  /\ UNCHANGED <<detectorVars, clearerVars, popup>>

\* C26: only pastes drive the countdown: a COPY_DETECTED message that the
\* Coordinator handles, in whatever state, starts no countdown, restarts none,
\* cancels none and issues no clear.
C26_CopyDrivesNothing ==
  [][CopyHandled => UNCHANGED <<clearTimer, timeouts, countdownIntervals, clearing>>]_vars

\* C27: the offscreen fallback is bounded: one clear sends at most 5
\* OFFSCREEN_PINGs and none after a pong with success; it sends
\* OFFSCREEN_CLEAR_CLIPBOARD at most twice, the second time only after the first
\* was rejected (lastError or the 3 s timeout), and an answer of the document
\* is never followed by another send.
C27_OffscreenBounded ==
  [][/\ chain'.pings <= PingRetries
     /\ chain'.sends <= 2
     /\ (chain.pc \in {"send", "awaitClear", "ephemeralWindow", "done"}
           /\ chain'.pc # "idle") => chain'.pings = chain.pings
     /\ (chain.pc = "awaitClear" /\ chain'.pc = "send") =>
          (chain.sends = 1 /\ chain' = AfterOffscreenSend(chain, "error"))]_vars

\* The fifth ping was the first to be answered, the first send was rejected and
\* the one retry is under way.
C27_Witness ==
  /\ chain.pings = PingRetries
  /\ chain.sends = 2
  /\ chain.pc = "awaitClear"

\* The narrow rule set: an input element whose type is password, or whose
\* autocomplete attribute has the token current-password, new-password or
\* one-time-code, or which is rendered masked.
NarrowRule(el) ==
  /\ el.tag = "input"
  /\ \/ el.type = "password"
     \/ \E k \in 1..Len(el.autocomplete) :
          /\ el.autocomplete[k] \in {"current-password", "new-password", "one-time-code"}
          /\ \A j \in {k - 1, k + 1} \cap (1..Len(el.autocomplete)) : el.autocomplete[j] = " "
     \/ el.security \notin {"", "none"}

C29_FallbackAfterRejection ==
  [][(/\ ContextReportsCleared
      /\ clipboardApi.modern = "rejects"
      /\ clipboardApi.exec) => clipboard' # Secret]_vars

\* C30: a tab or window the ephemeral step opened is removed when its grace
\* period is over, whether or not its page cleared the clipboard: an auxiliary
\* page is open only while the clear that opened it waits out the grace
\* period, and none is open when a clear has ended.
C30_AuxiliaryRemoved ==
  /\ auxiliary # {} => \E page \in AuxiliaryPages : auxiliary = {page} /\ chain.pc = GracePc(page)
  /\ chain.pc \in {"idle", "done"} => auxiliary = {}

\* The ephemeral step opened a page, the page did not clear the clipboard, and
\* the step has removed the page and returned true.
C30_Witness ==
  /\ chain.pc = "done"
  /\ chain.tried # <<>>
  /\ chain.tried[Len(chain.tried)] = 5
  /\ chain.cleared
  /\ clipboard = Secret
  /\ auxiliary = {}

\* C31: a PASTE_DETECTED is answered inside the listener with { success: true },
\* whether or not it started a countdown; a message of a type the router does
\* not know is answered with { success: false, error: 'Unknown message type' }
\* and changes neither the settings nor the timer nor the badge.
C31_RouterAnswers ==
  [][\A m \in ScriptMessages \cup {UntypedMessage} :
       (OnMessage(m) /\ reply'.type = m.type) =>
          IF m.type = "PASTE_DETECTED"
            THEN reply' = [type |-> "PASTE_DETECTED", success |-> "true", error |-> <<>>,
                           message |-> <<>>]
            ELSE /\ reply'.success = "false"
                 /\ reply'.error = <<"Unknown", "message", "type">>
                 /\ UNCHANGED <<settings, clearTimer, timeouts, countdownIntervals, badge,
                                badgeTimers>>]_vars

\* A paste that started nothing, the extension being off, was acknowledged.
C31_Witness ==
  /\ reply.type = "PASTE_DETECTED"
  /\ reply.success = "true"
  /\ ~settings.enabled
  /\ timeouts = {}

\* C32: a CLEAR_CLIPBOARD_NOW that meets a disabled worker is answered with
\* { success: false, message: 'Extension is disabled' }; no clear is issued and
\* the timer, the settings and the badge stay as they are.
C32_ClearNowWhileDisabled ==
  [][(~settings.enabled /\ reply' # reply /\ reply'.type = "CLEAR_CLIPBOARD_NOW") =>
       /\ reply'.success = "false"
       /\ reply'.message = <<"Extension", "is", "disabled">>
       /\ UNCHANGED <<clearing, chain, clipboard, clearTimer, timeouts, countdownIntervals,
                      settings, badge, badgeTimers>>]_vars

\* The extension was switched off and a "clear now" was then refused, the 'OFF'
\* badge still showing.
C32_Witness ==
  /\ reply.type = "CLEAR_CLIPBOARD_NOW"
  /\ reply.success = "false"
  /\ ~settings.enabled
  /\ badge = "OFF"
  /\ clearing = 0

C34_DisabledHasNoTimer == ~settings.enabled => (clearTimer = Null /\ timeouts = {})

\* C35: a setting a message has put into the worker's memory is not undone by
\* a loadSettings that completes afterwards.  Before the first load of a worker
\* completes, a value that differs from the defaults was set by a message: the
\* completing load leaves it as it is.
C35_LoadKeepsMessageSettings ==
  [][(/\ ~settingsInitialized
      /\ settingsInitialized'
      /\ Len(loads') < Len(loads)) =>
       /\ ~settings.enabled => ~settings'.enabled
       /\ settings.interval # DefaultInterval => settings'.interval = settings.interval
       /\ settings.clearOnlyOnPasswordPaste => settings'.clearOnlyOnPasswordPaste]_vars

\* C36: once TOGGLE_EXTENSION(enabled = false) has been handled, no context
\* runs the clear primitive until the extension is enabled again, not even for
\* a clearClipboard that was between two of its awaits when the disable came.
C36_NoClearWhileDisabled ==
  [][(~chain.cleared /\ chain'.cleared) => settings.enabled]_vars

\* A PASTE_DETECTED that does not qualify arrives: the worker is disabled, or it
\* clears on password pastes only and the message names no password field.
NonQualifyingPaste ==
  /\ \E message \in ScriptMessages :
       /\ message.type = "PASTE_DETECTED"
       /\ ~Qualifies(message)
       /\ OnMessage(message)
  /\ UNCHANGED <<detectorVars, clearerVars, popup>>

\* The requests that have nothing to do with the clear timer.
FrameRequest ==
  \/ OnToggleExtension(TRUE, TRUE)
  \/ PopupSetsPasswordOnlySaved
  \/ OnGetSettings
  \/ NonQualifyingPaste

\* The requests of FrameRequest leave the clear timer as it is.
TimerFrame == [][FrameRequest => UNCHANGED <<clearTimer, timeouts>>]_vars

\* C37: TOGGLE_EXTENSION(enabled = true), UPDATE_PASSWORD_ONLY, GET_SETTINGS and
\* a PASTE_DETECTED that does not qualify neither create nor cancel nor
\* reschedule the clear timer: enabling during a countdown leaves its deadline
\* where it was, and enabling a disabled worker leaves it idle, with no timer.
C37_TimerFrame ==
  [][/\ FrameRequest => UNCHANGED <<clearTimer, timeouts>>
     /\ (~settings.enabled /\ OnToggleExtension(TRUE, TRUE)) =>
          (clearTimer' = Null /\ timeouts' = {})]_vars

IsPasteDetected(message) == message.type = "PASTE_DETECTED"
PasteDetectedSent(q) == Len(SelectSeq(q, IsPasteDetected))

C39_OneMessagePerPaste ==
  [][/\ PasteDetectedSent(outbox') <= PasteDetectedSent(outbox) + 1
     /\ contextMenu'.oneShots <= 1]_vars

\* The same for content.js alone.
OneMessagePerPasteContent ==
  [][script = "content.js" => PasteDetectedSent(outbox') <= PasteDetectedSent(outbox) + 1]_vars

\* The same for part_002 alone.
OneMessagePerPasteNarrow ==
  [][script = "part_002" => PasteDetectedSent(outbox') <= PasteDetectedSent(outbox) + 1]_vars

\* One-shot listeners do not pile up.
OneShotsBounded == contextMenu.oneShots <= 1

====
